---- MODULE Spec2Model ----
\* Model of the scripts of setup/.claude-scripts. youtube_transcript.py:
\* extract_video_id, sanitize_filename, format_timestamp, fetch_transcript,
\* fetch_transcript_playwright, save_transcript, batch_fetch and main.
\* extract_pages_with_gemini.py: main. gemini_image_generator.py:
\* GeminiImageGenerator.generate_image.
\* Python strings are sequences of one-character strings.
EXTENDS Integers, Sequences, FiniteSets, TLC

VARIABLES
    urls,                     \* batch_fetch parameter: the list of URLs
    delay,                    \* batch_fetch parameter (seconds)
    max_retries,              \* batch_fetch parameter
    skip_existing,            \* batch_fetch parameter
    use_playwright_fallback,  \* batch_fetch / save_transcript parameter
    playwright_available,     \* module global PLAYWRIGHT_AVAILABLE
    pc,                       \* position of batch_fetch
    idx,                      \* loop variable idx (1-based), 0 before the loop
    attempt,                  \* loop variable of the retry loop
    output_file,              \* output path of the current video
    results,                  \* the dict results: url -> path or None
    files,                    \* output directory: path -> size, as far as read or written
    vstate,                   \* per video (by position): state of the per-video machine
    fetches,                  \* number of save_transcript calls made so far
    sleeps,                   \* time.sleep calls made for the current video
    call,                     \* what the latest save_transcript call did
    pw_pc,                    \* position of fetch_transcript_playwright
    pw_url,                   \* fetch_transcript_playwright parameter url
    pw_driver,                \* whether the Playwright driver of the with block runs
    pw_browser,               \* the browser of the call: "none", "open" or "closed"
    pw_selector,              \* position in transcript_button_selectors
    pw_tried,                 \* how each selector tried so far ended
    pw_clicks,                \* the selectors whose element was clicked
    pw_page,                  \* the elements the page holds for each selector family
    pw_segments,              \* transcript_segments
    pw_error,                 \* text of the exception raised to the caller
    pw_timestamps,            \* fetch_transcript_playwright parameter include_timestamps
    pw_lines,                 \* markdown_lines of fetch_transcript_playwright
    fn,                       \* the function called on its own: its name
    fn_arg,                   \* its argument, and what the argument was built from
    fn_ret,                   \* what it returned or raised, once it has
    m_pc,                     \* position of main
    m_url,                    \* args.url
    m_output,                 \* whether -o / --output was given
    m_exit,                   \* exit code of the process, -1 while it runs
    m_stderr,                 \* what main printed on the error stream
    m_printed,                \* what main printed on standard output
    m_no_formatting,          \* args.no_formatting
    ft_pc,                    \* position of fetch_transcript
    ft_url,                   \* fetch_transcript parameter url
    ft_language,              \* fetch_transcript parameter language
    ft_timestamps,            \* fetch_transcript parameter include_timestamps
    ft_formatting,            \* fetch_transcript parameter preserve_formatting
    ft_attempts,              \* the track lookups made so far, and how each ended
    ft_track,                 \* transcript: the track selected
    ft_snippets,              \* fetched_transcript.snippets: text, start, duration
    ft_i,                     \* number of snippets the formatting loop has taken
    ft_paragraph,             \* current_paragraph
    ft_last_end,              \* last_end_time
    ft_lines,                 \* markdown_lines
    ft_breaks,                \* the snippets after which the loop closed a paragraph
    ft_ret,                   \* the markdown returned, or the text of the exception
    x_pc,                     \* extract_pages_with_gemini: position of main
    x_run,                    \* which run of the script this is
    x_i,                      \* position in failed_pages
    x_files,                  \* output directory: per page, the markdown file
    x_log,                    \* per run and page: what main did with the page
    g_pc,                     \* position of GeminiImageGenerator.generate_image
    g_inputs,                 \* parameter input_images: what each entry is
    g_i,                      \* entries _prepare_contents has taken
    g_response,               \* what the API response holds
    g_requests,               \* generate_content calls made
    g_cause,                  \* the exception raised inside the try block
    g_raised                  \* the exception the caller of generate_image gets

vars == <<urls, delay, max_retries, skip_existing, use_playwright_fallback,
          playwright_available, pc, idx, attempt, output_file, results, files,
          vstate, fetches, sleeps, call, pw_pc, pw_url, pw_driver, pw_browser,
          pw_selector, pw_tried, pw_clicks, pw_page, pw_segments, pw_error,
          pw_timestamps, pw_lines, fn, fn_arg, fn_ret,
          m_pc, m_url, m_output, m_exit, m_stderr, m_printed, m_no_formatting,
          ft_pc, ft_url, ft_language, ft_timestamps, ft_formatting, ft_attempts,
          ft_track, ft_snippets, ft_i, ft_paragraph, ft_last_end, ft_lines,
          ft_breaks, ft_ret,
          x_pc, x_run, x_i, x_files, x_log,
          g_pc, g_inputs, g_i, g_response, g_requests, g_cause, g_raised>>

pwVars == <<pw_pc, pw_url, pw_driver, pw_browser, pw_selector, pw_tried,
            pw_clicks, pw_page, pw_segments, pw_error, pw_timestamps, pw_lines>>

batchVars == <<urls, delay, max_retries, skip_existing, use_playwright_fallback,
               playwright_available, pc, idx, attempt, output_file, results,
               files, vstate, fetches, sleeps, call>>

fnVars == <<fn, fn_arg, fn_ret>>

\* what a step of batch_fetch, and of fetch_transcript_playwright, leaves alone
mainVars == <<m_pc, m_url, m_output, m_exit, m_stderr, m_printed, m_no_formatting>>

ftVars == <<ft_pc, ft_url, ft_language, ft_timestamps, ft_formatting, ft_attempts,
            ft_track, ft_snippets, ft_i, ft_paragraph, ft_last_end, ft_lines,
            ft_breaks, ft_ret>>

xVars == <<x_pc, x_run, x_i, x_files, x_log>>

gVars == <<g_pc, g_inputs, g_i, g_response, g_requests, g_cause, g_raised>>

\* the variables of the other two scripts
otherVars == <<xVars, gVars>>

nonBatchVars == <<pwVars, fnVars, mainVars, ftVars, otherVars>>

nonPwVars == <<batchVars, fnVars, mainVars, ftVars, otherVars>>

nonFnVars == <<batchVars, pwVars, mainVars, ftVars, otherVars>>

nonFtVars == <<batchVars, pwVars, fnVars, mainVars, otherVars>>

ytVars == <<batchVars, pwVars, fnVars, mainVars, ftVars>>

----------------------------------------------------------------------------
\* Bounds of the model.

MaxVideos == 2

MaxBatchRetries == 2

MaxRetries == 3

MaxDelay == 2

MaxSnippets == 3

----------------------------------------------------------------------------
\* Python values and string helpers.

None == <<"None">>

UpperChars ==
    <<"A","B","C","D","E","F","G","H","I","J","K","L","M","N","O","P","Q",
      "R","S","T","U","V","W","X","Y","Z">>

LowerChars ==
    <<"a","b","c","d","e","f","g","h","i","j","k","l","m","n","o","p","q",
      "r","s","t","u","v","w","x","y","z">>

Digits == {"0","1","2","3","4","5","6","7","8","9"}

Range(s) == {s[i] : i \in 1..Len(s)}

\* str.lower() on one character
LowerChar(c) ==
    IF \E i \in 1..Len(UpperChars) : UpperChars[i] = c
    THEN LowerChars[CHOOSE i \in 1..Len(UpperChars) : UpperChars[i] = c]
    ELSE c

\* str.lower()
Lower(s) == [i \in 1..Len(s) |-> LowerChar(s[i])]

\* sub in s
Contains(s, sub) ==
    \E i \in 0..(Len(s) - Len(sub)) : \A j \in 1..Len(sub) : s[i + j] = sub[j]

\* s.find(sub): 0-based index of the first occurrence, -1 when absent
Find(s, sub) ==
    IF Contains(s, sub)
    THEN CHOOSE i \in 0..(Len(s) - Len(sub)) :
            /\ \A j \in 1..Len(sub) : s[i + j] = sub[j]
            /\ \A k \in 0..(i - 1) : \E j \in 1..Len(sub) : s[k + j] # sub[j]
    ELSE -1

\* s[:n]
Take(s, n) == SubSeq(s, 1, IF n < Len(s) THEN n ELSE Len(s))

\* s[n:]
Drop(s, n) == SubSeq(s, n + 1, Len(s))

\* s.lstrip(chars)
LStrip(s, chars) ==
    IF \A i \in 1..Len(s) : s[i] \in chars THEN <<>>
    ELSE Drop(s, (CHOOSE i \in 1..Len(s) :
                    s[i] \notin chars /\ \A k \in 1..(i - 1) : s[k] \in chars) - 1)

\* s.rstrip(chars)
RStrip(s, chars) ==
    IF \A i \in 1..Len(s) : s[i] \in chars THEN <<>>
    ELSE Take(s, CHOOSE i \in 1..Len(s) :
                    s[i] \notin chars /\ \A k \in (i + 1)..Len(s) : s[k] \in chars)

\* s.strip(chars)
Strip(s, chars) == RStrip(LStrip(s, chars), chars)

\* 0-based index of the last occurrence of character c in s, -1 when absent
RFindChar(s, c) ==
    IF c \in Range(s)
    THEN (CHOOSE i \in 1..Len(s) : s[i] = c /\ \A k \in (i + 1)..Len(s) : s[k] # c) - 1
    ELSE -1

\* 0-based index of the first character of s that is in chars, Len(s) when none
FindAny(s, chars) ==
    IF \E i \in 1..Len(s) : s[i] \in chars
    THEN (CHOOSE i \in 1..Len(s) :
            s[i] \in chars /\ \A k \in 1..(i - 1) : s[k] \notin chars) - 1
    ELSE Len(s)

\* s.split(c) for a one-character separator
RECURSIVE SplitOn(_, _)
SplitOn(s, c) ==
    IF c \notin Range(s) THEN <<s>>
    ELSE LET i == FindAny(s, {c})
         IN  <<Take(s, i)>> \o SplitOn(Drop(s, i + 1), c)

\* s.split(c, 1)
SplitOnce(s, c) ==
    IF c \notin Range(s) THEN <<s>>
    ELSE LET i == FindAny(s, {c}) IN <<Take(s, i), Drop(s, i + 1)>>

\* s.replace(a, b) for one-character a and b
ReplaceChar(s, a, b) == [i \in 1..Len(s) |-> IF s[i] = a THEN b ELSE s[i]]

----------------------------------------------------------------------------
\* urllib.parse as far as extract_video_id uses it (ASCII input without
\* percent escapes, so unquote changes nothing).

SchemeChars == Range(UpperChars) \cup Range(LowerChars) \cup Digits \cup {"+", "-", "."}

UsesParams ==
    { <<>>,
    <<"f","t","p">>,
    <<"h","d","l">>,
    <<"p","r","o","s","p","e","r","o">>,
    <<"h","t","t","p">>,
    <<"i","m","a","p">>,
    <<"h","t","t","p","s">>,
    <<"s","h","t","t","p">>,
    <<"r","t","s","p">>,
    <<"r","t","s","p","u">>,
    <<"s","i","p">>,
    <<"s","i","p","s">>,
    <<"m","m","s">>,
    <<"s","f","t","p">>,
    <<"t","e","l">> }

\* urlsplit, step by step; the result is [error, scheme, netloc, path, query],
\* error being the ValueError "Invalid IPv6 URL" of a netloc with an unmatched
\* bracket

\* the query is split off at the first '?'
SplitQuery(scheme, netloc, u) ==
    [ error  |-> ("[" \in Range(netloc)) # ("]" \in Range(netloc)),
      scheme |-> scheme,
      netloc |-> netloc,
      path   |-> SplitOnce(u, "?")[1],
      query  |-> IF "?" \in Range(u) THEN SplitOnce(u, "?")[2] ELSE <<>> ]

\* the fragment is dropped at the first '#'
SplitFragment(scheme, netloc, u) == SplitQuery(scheme, netloc, SplitOnce(u, "#")[1])

\* _splitnetloc(url, 2): the netloc ends at the first of '/', '?', '#'
SplitNetlocAt(scheme, rest, cut) ==
    SplitFragment(scheme, Take(rest, cut), Drop(rest, cut))

SplitNetloc(scheme, u) ==
    IF Take(u, 2) = <<"/", "/">>
    THEN SplitNetlocAt(scheme, Drop(u, 2), FindAny(Drop(u, 2), {"/", "?", "#"}))
    ELSE SplitFragment(scheme, <<>>, u)

\* the scheme is what precedes the first ':' at 0-based index i, when it
\* starts with a letter and holds scheme characters only
SplitSchemeAt(u, i) ==
    IF /\ i > 0
       /\ u[1] \in Range(UpperChars) \cup Range(LowerChars)
       /\ \A k \in 1..i : u[k] \in SchemeChars
    THEN SplitNetloc(Lower(Take(u, i)), Drop(u, i + 1))
    ELSE SplitNetloc(<<>>, u)

SplitScheme(u) == SplitSchemeAt(u, Find(u, <<":">>))

\* leading blanks are stripped, tabs and newlines removed
UrlSplit(url) ==
    SplitScheme(SelectSeq(LStrip(url, {" ", "\t", "\n", "\r", "\f"}),
                          LAMBDA c : c \notin {"\t", "\r", "\n"}))

\* _splitparams(url)[0], slash being the 0-based index of the last '/' or -1
SplitParamsAt(p, slash) ==
    IF slash >= 0
    THEN IF ";" \in Range(Drop(p, slash))
         THEN Take(p, slash + FindAny(Drop(p, slash), {";"}))
         ELSE p
    ELSE Take(p, FindAny(p, {";"}))

SplitParamsPath(p) == SplitParamsAt(p, RFindChar(p, "/"))

\* urlparse: urlsplit, then the path without its ;params
WithoutParams(r) ==
    IF ~r.error /\ r.scheme \in UsesParams /\ ";" \in Range(r.path)
    THEN [r EXCEPT !.path = SplitParamsPath(r.path)]
    ELSE r

UrlParse(url) == WithoutParams(UrlSplit(url))

\* parse_qsl: a field name=value is kept when its value is not blank
KeepsField(nv) == Len(nv) = 2 /\ Len(nv[2]) > 0

FieldPair(nv) == <<ReplaceChar(nv[1], "+", " "), ReplaceChar(nv[2], "+", " ")>>

FieldPairs(kept) == [k \in 1..Len(kept) |-> FieldPair(SplitOnce(kept[k], "="))]

\* parse_qs(query): the fields as <<name, value>> pairs, in order
ParseQsl(qs) ==
    IF qs = <<>> THEN <<>>
    ELSE FieldPairs(SelectSeq(SplitOn(qs, "&"),
                              LAMBDA p : KeepsField(SplitOnce(p, "="))))

HasV(fields) == \E k \in 1..Len(fields) : fields[k][1] = <<"v">>

FirstV(fields) ==
    fields[CHOOSE k \in 1..Len(fields) :
            fields[k][1] = <<"v">> /\ \A m \in 1..(k - 1) : fields[m][1] # <<"v">>][2]

\* 'v' in parse_qs(query)
QueryHasV(qs) == HasV(ParseQsl(qs))

\* parse_qs(query)['v'][0]
QueryFirstV(qs) == FirstV(ParseQsl(qs))

----------------------------------------------------------------------------
\* extract_video_id

IdChars == Range(UpperChars) \cup Range(LowerChars) \cup Digits \cup {"_", "-"}

IdLength == 11

\* re.match(r'^[a-zA-Z0-9_-]{11}$', url); $ also matches before a final newline
MatchesBareId(url) ==
    /\ Len(url) \in {IdLength, IdLength + 1}
    /\ \A i \in 1..IdLength : url[i] \in IdChars
    /\ Len(url) = IdLength + 1 => url[IdLength + 1] = "\n"

StrWatch ==
    <<"y","o","u","t","u","b","e",".","c","o","m","/","w","a","t","c","h">>

StrYoutuBe ==
    <<"y","o","u","t","u",".","b","e","/">>

StrEmbed ==
    <<"y","o","u","t","u","b","e",".","c","o","m","/","e","m","b","e","d",
      "/">>

StrV ==
    <<"y","o","u","t","u","b","e",".","c","o","m","/","v","/">>

Value(v) == [kind |-> "value", value |-> v]

NoValue == [kind |-> "none", value |-> <<>>]

Raised == [kind |-> "raise", value |-> <<>>]

LastOf(parts) == parts[Len(parts)]

\* mutant of VideoIdFrom: the youtu.be/ check made before the v= check
VideoIdFromPathFirst(url, p) ==
    IF Contains(url, StrYoutuBe)
         THEN IF p.error THEN Raised ELSE Value(LStrip(p.path, {"/"}))
    ELSE IF Contains(url, StrWatch) /\ p.error THEN Raised
    ELSE IF Contains(url, StrWatch) /\ QueryHasV(p.query)
         THEN Value(QueryFirstV(p.query))
    ELSE IF Contains(url, StrEmbed) \/ Contains(url, StrV)
         THEN IF p.error THEN Raised ELSE Value(LastOf(SplitOn(p.path, "/")))
    ELSE IF MatchesBareId(url) THEN Value(url)
    ELSE NoValue

\* the four checks of extract_video_id, p being urlparse(url)
VideoIdFrom(url, p) ==
    IF Contains(url, StrWatch) /\ p.error THEN Raised
    ELSE IF Contains(url, StrWatch) /\ QueryHasV(p.query)
         THEN Value(QueryFirstV(p.query))
    ELSE IF Contains(url, StrYoutuBe)
         THEN IF p.error THEN Raised ELSE Value(LStrip(p.path, {"/"}))
    ELSE IF Contains(url, StrEmbed) \/ Contains(url, StrV)
         THEN IF p.error THEN Raised ELSE Value(LastOf(SplitOn(p.path, "/")))
    ELSE IF MatchesBareId(url) THEN Value(url)
    ELSE NoValue

\* the value returned (a string, or None), or the ValueError of urlparse
extract_video_id(url) == VideoIdFrom(url, UrlParse(url))

\* Python truthiness of the returned value: None and '' are false
Truthy(r) == r.kind = "value" /\ r.value # <<>>

----------------------------------------------------------------------------
\* sanitize_filename

InvalidFilenameChars == {"<", ">", ":", "\"", "/", "\\", "|", "?", "*"}

Whitespace == {" ", "\t", "\n", "\r", "\f"}

max_length == 100

StrUntitled ==
    <<"u","n","t","i","t","l","e","d">>

\* the positions of s that re.sub(r'\s+', ' ', s) keeps: the characters that
\* are no whitespace, and the first of each run of whitespace
KeptPositions(s) ==
    SelectSeq([i \in 1..Len(s) |-> i],
              LAMBDA i : s[i] \notin Whitespace \/ i = 1 \/ s[i - 1] \notin Whitespace)

CollapseAt(s, keep) ==
    [k \in 1..Len(keep) |-> IF s[keep[k]] \in Whitespace THEN " " ELSE s[keep[k]]]

\* re.sub(r'\s+', ' ', s)
CollapseWhitespace(s) == CollapseAt(s, KeptPositions(s))

\* s.rsplit(' ', 1)[0]
RSplitSpaceHead(s) == IF " " \in Range(s) THEN Take(s, RFindChar(s, " ")) ELSE s

\* "Truncate to max length"
Truncate(s) == IF Len(s) > max_length THEN RSplitSpaceHead(Take(s, max_length)) ELSE s

\* "If empty after sanitization, use default"
OrUntitled(s) == IF s = <<>> THEN StrUntitled ELSE s

sanitize_filename(title) ==
    OrUntitled(Truncate(Strip(
        CollapseWhitespace(SelectSeq(title, LAMBDA c : c \notin InvalidFilenameChars)),
        {".", " "})))

----------------------------------------------------------------------------
\* Outcomes of the two fetchers, as save_transcript sees them: the markdown, or
\* an exception whose text is msg.

Ok == [ok |-> TRUE, msg |-> <<>>]

Err(m) == [ok |-> FALSE, msg |-> m]

StrFailedToFetch ==
    <<"F","a","i","l","e","d"," ","t","o"," ","f","e","t","c","h"," ","t",
      "r","a","n","s","c","r","i","p","t",":"," ">>

StrPlaywrightFailed ==
    <<"P","l","a","y","w","r","i","g","h","t"," ","f","a","l","l","b","a",
      "c","k"," ","f","a","i","l","e","d",":"," ">>

\* texts of the exceptions the transcript provider raises inside fetch_transcript
ApiErrors ==
    {
    <<"S","u","b","t","i","t","l","e","s"," ","a","r","e"," ","d","i","s",
      "a","b","l","e","d"," ","f","o","r"," ","t","h","i","s"," ","v","i",
      "d","e","o">>,
    <<"I","p","B","l","o","c","k","e","d",":"," ","r","e","q","u","e","s",
      "t","s"," ","f","r","o","m"," ","y","o","u","r"," ","I","P"," ","a",
      "r","e"," ","r","e","f","u","s","e","d">>,
    <<"C","o","u","l","d"," ","n","o","t"," ","r","e","t","r","i","e","v",
      "e"," ","a"," ","t","r","a","n","s","c","r","i","p","t",":"," ","Y",
      "o","u","T","u","b","e"," ","i","s"," ","b","l","o","c","k","i","n",
      "g"," ","y","o","u","r"," ","I","P">> }

\* texts of the exceptions raised inside fetch_transcript_playwright
StrNoButton ==
    <<"C","o","u","l","d"," ","n","o","t"," ","f","i","n","d"," ","t","r",
      "a","n","s","c","r","i","p","t"," ","b","u","t","t","o","n"," ","o",
      "n"," ","p","a","g","e">>

StrNoSegments ==
    <<"N","o"," ","t","r","a","n","s","c","r","i","p","t"," ","s","e","g",
      "m","e","n","t","s"," ","f","o","u","n","d">>

PlaywrightErrors == {StrNoButton, StrNoSegments}

\* fetch_transcript: the exception it raises for the inner exception e
fetch_transcript_error(e) == StrFailedToFetch \o e

\* fetch_transcript_playwright: the exception it raises for the inner exception e
fetch_transcript_playwright_error(e) == StrPlaywrightFailed \o e

ApiOutcomes == {Ok} \cup {Err(fetch_transcript_error(e)) : e \in ApiErrors}

PlaywrightOutcomes ==
    {Ok} \cup {Err(fetch_transcript_playwright_error(e)) : e \in PlaywrightErrors}

----------------------------------------------------------------------------
\* save_transcript

ErrorHead == 50

StrBothFailed ==
    <<"B","o","t","h"," ","A","P","I"," ","a","n","d"," ","P","l","a","y",
      "w","r","i","g","h","t"," ","f","a","i","l","e","d","."," ","A","P",
      "I",":"," ">>

StrCommaPlaywright ==
    <<","," ","P","l","a","y","w","r","i","g","h","t",":"," ">>

\* the exception raised when both fetchers failed
BothFailedError(api_error, fallback_error) ==
    StrBothFailed \o Take(api_error, ErrorHead)
        \o StrCommaPlaywright \o Take(fallback_error, ErrorHead)

\* mutant of FallbackEnabled: the fallback is never taken
FallbackEnabledNever(use_fallback, available) == FALSE

\* mutant of FallbackEnabled: the flag of the caller is not looked at
FallbackEnabledIgnoringFlag(use_fallback, available) == available

\* whether save_transcript goes on to the Playwright fetcher after an API failure
FallbackEnabled(use_fallback, available) == use_fallback /\ available

\* save_transcript(url, output_file, ...) for the outcomes api and pw of the two
\* fetchers: ok (the file is written), whether each fetcher was invoked, and
\* the text of the exception raised
save_transcript(api, pw, use_fallback, available) ==
    IF api.ok
    THEN [ok |-> TRUE, source |-> "API", api_error |-> <<>>,
          fallback_invoked |-> FALSE, fallback_error |-> <<>>, error |-> <<>>]
    ELSE IF FallbackEnabled(use_fallback, available)
    THEN IF pw.ok
         THEN [ok |-> TRUE, source |-> "Playwright", api_error |-> api.msg,
               fallback_invoked |-> TRUE, fallback_error |-> <<>>, error |-> <<>>]
         ELSE [ok |-> FALSE, source |-> "none", api_error |-> api.msg,
               fallback_invoked |-> TRUE, fallback_error |-> pw.msg,
               error |-> BothFailedError(api.msg, pw.msg)]
    ELSE [ok |-> FALSE, source |-> "none", api_error |-> api.msg,
          fallback_invoked |-> FALSE, fallback_error |-> <<>>, error |-> api.msg]

NoCall ==
    [ok |-> FALSE, source |-> "nocall", api_error |-> <<>>,
     fallback_invoked |-> FALSE, fallback_error |-> <<>>, error |-> <<>>]

----------------------------------------------------------------------------
\* batch_fetch

\* the URLs a batch is drawn from: a watch URL, a short URL, a string that is
\* no reference to a video, and a URL whose host has an unmatched bracket
UrlWatch ==
    <<"h","t","t","p","s",":","/","/","w","w","w",".","y","o","u","t","u",
      "b","e",".","c","o","m","/","w","a","t","c","h","?","v","=","d","Q",
      "w","4","w","9","W","g","X","c","Q">>

UrlShort ==
    <<"h","t","t","p","s",":","/","/","y","o","u","t","u",".","b","e","/",
      "9","b","Z","k","p","7","q","1","9","f","0">>

UrlInvalid ==
    <<"n","o","t"," ","a"," ","v","i","d","e","o">>

UrlBadHost ==
    <<"h","t","t","p","s",":","/","/","[","y","o","u","t","u",".","b","e",
      "/","9","b","Z","k","p","7","q","1","9","f","0">>

UrlPool == {UrlWatch, UrlShort, UrlInvalid, UrlBadHost}

\* the video URLs of a playlist, as fetch_playlist_videos returns them
UrlWatchSecond ==
    <<"h","t","t","p","s",":","/","/","w","w","w",".","y","o","u","t","u",
      "b","e",".","c","o","m","/","w","a","t","c","h","?","v","=","9","b",
      "Z","k","p","7","q","1","9","f","0">>

PlaylistVideos == {UrlWatch, UrlWatchSecond}

\* what fetch_video_title returns: a title, or None when yt-dlp fails
TitlePool ==
    {
    <<"I","n","t","r","o",":"," ","\"","P","a","r","t"," ","1","\"">> }

TitleOutcomes == {NoValue} \cup {Value(t) : t \in TitlePool}

StrMd ==
    <<".","m","d">>

\* output_file of a video whose ID is video_id and whose title lookup gave title
OutputFile(video_id, title) ==
    (IF Truthy(title) THEN sanitize_filename(title.value) ELSE video_id) \o StrMd

\* extract_video_id and the output path of every URL of the pool, computed once
VideoIdOf == [u \in UrlPool \cup PlaylistVideos |-> extract_video_id(u)]

OutputFileOf ==
    [u \in {x \in UrlPool \cup PlaylistVideos : Truthy(VideoIdOf[x])}, t \in TitleOutcomes |->
        OutputFile(VideoIdOf[u].value, t)]

\* sizes of the files found in the output directory, and of the files written
\* (the header of a transcript alone is longer than 100 bytes)
ExistingSizes == {50, 100, 101, 150}

WrittenSizes == {150}

NoFile == [exists |-> FALSE, size |-> 0]

File(n) == [exists |-> TRUE, size |-> n]

\* what os.path.exists / os.path.getsize can report for path: what the run has
\* read or written there, else whatever the directory held before the run
Observe(path) ==
    IF path \in DOMAIN files THEN {files[path]}
    ELSE {NoFile} \cup {File(n) : n \in ExistingSizes}

Put(f, k, v) == [x \in DOMAIN f \cup {k} |-> IF x = k THEN v ELSE f[x]]

MinContentSize == 100

\* mutant of SkipsExisting: the size test taken as "at least"
SkipsExistingAtLeast(skip, f) == skip /\ f.exists /\ f.size >= MinContentSize

\* the skip test of batch_fetch on the file f found at output_file
SkipsExisting(skip, f) == skip /\ f.exists /\ f.size > MinContentSize

StrBlocking ==
    <<"b","l","o","c","k","i","n","g">>

StrBlocked ==
    <<"b","l","o","c","k","e","d">>

\* mutant of IsRateLimitError: the test written 'blocking' or 'blocked' in msg,
\* which Python reads as ('blocking') or (...), true of every message
IsRateLimitErrorAlways(error_msg) ==
    TRUE \/ Contains(Lower(error_msg), StrBlocked)

\* the rate-limit test of batch_fetch on str(e)
IsRateLimitError(error_msg) ==
    Contains(Lower(error_msg), StrBlocking) \/ Contains(Lower(error_msg), StrBlocked)

\* what one save_transcript call can do, by the two fallback flags, and the
\* errors among them that batch_fetch takes for a rate limit, computed once
SaveResults ==
    [fb \in BOOLEAN, av \in BOOLEAN |->
        {save_transcript(api, pw, fb, av) :
            api \in ApiOutcomes, pw \in PlaywrightOutcomes}]

RateLimitErrors ==
    {r.error : r \in {x \in UNION {SaveResults[fb, av] : fb \in BOOLEAN, av \in BOOLEAN} :
                        ~x.ok /\ IsRateLimitError(x.error)}}

\* mutant of BackoffWait: a linear backoff
BackoffWaitLinear(d, k) == d * (2 * k)

\* wait_time of the retry loop
BackoffWait(d, k) == d * (2 ^ k)

\* mutant of PacesAfter: the sleep also follows the last video
PacesAfterAlways(i, total) == i <= total

\* whether the pacing sleep follows the save of video i of total
PacesAfter(i, total) == i < total

\* no function is called on its own
FnIdle ==
    /\ fn = "none"
    /\ fn_arg = <<>>
    /\ fn_ret = NoValue

\* the other two scripts are not running
OthersIdle ==
    /\ x_pc = "idle"
    /\ x_run = 0
    /\ x_i = 0
    /\ x_files = <<>>
    /\ x_log = <<>>
    /\ g_pc = "idle"
    /\ g_inputs = <<>>
    /\ g_i = 0
    /\ g_response = "none"
    /\ g_requests = 0
    /\ g_cause = "none"
    /\ g_raised = "none"

\* main is not running
MainIdle ==
    /\ m_pc = "idle"
    /\ m_url = <<>>
    /\ m_output = FALSE
    /\ m_no_formatting = FALSE
    /\ m_exit = -1
    /\ m_stderr = <<>>
    /\ m_printed = "nothing"

\* no track is selected
NoTrack == [language_code |-> <<>>, is_generated |-> FALSE]

\* fetch_transcript is not running
FetchIdle ==
    /\ ft_pc = "idle"
    /\ ft_url = <<>>
    /\ ft_language = <<>>
    /\ ft_timestamps = FALSE
    /\ ft_formatting = FALSE
    /\ ft_attempts = <<>>
    /\ ft_track = NoTrack
    /\ ft_snippets = <<>>
    /\ ft_i = 0
    /\ ft_paragraph = <<>>
    /\ ft_last_end = 0
    /\ ft_lines = <<>>
    /\ ft_breaks = {}
    /\ ft_ret = <<>>

Sleep(kind, secs) == [kind |-> kind, secs |-> secs, attempt |-> attempt]

total == Len(urls)

\* the state when batch_fetch is entered with at most n URLs, a delay among
\* delays and max_retries among retries
InitWith(n, delays, retries) ==
    /\ urls \in UNION {[1..k -> UrlPool] : k \in 0..n}
    /\ delay \in delays
    /\ max_retries \in retries
    /\ skip_existing \in BOOLEAN
    /\ use_playwright_fallback \in BOOLEAN
    /\ playwright_available \in BOOLEAN
    /\ pc = "loop"
    /\ idx = 0
    /\ attempt = 0
    /\ output_file = <<>>
    /\ results = <<>>
    /\ files = <<>>
    /\ vstate = [i \in 1..Len(urls) |-> "Pending"]
    /\ fetches = 0
    /\ sleeps = <<>>
    /\ call = NoCall
    /\ pw_pc = "idle"
    /\ pw_url = <<>>
    /\ pw_driver = FALSE
    /\ pw_browser = "none"
    /\ pw_selector = 0
    /\ pw_tried = <<>>
    /\ pw_clicks = <<>>
    /\ pw_page = <<>>
    /\ pw_segments = <<>>
    /\ pw_error = <<>>
    /\ pw_timestamps = FALSE
    /\ pw_lines = <<>>
    /\ FnIdle
    /\ OthersIdle
    /\ MainIdle
    /\ FetchIdle

Params == <<urls, delay, max_retries, skip_existing, use_playwright_fallback,
            playwright_available>>

\* the loop takes the next URL: idx, and the per-video variables, start afresh
NextUrl ==
    /\ pc = "loop"
    /\ idx < total
    /\ idx' = idx + 1
    /\ attempt' = 0
    /\ sleeps' = <<>>
    /\ call' = NoCall
    /\ UNCHANGED <<Params, fetches, nonBatchVars>>

\* extract_video_id raises: the exception leaves batch_fetch
BatchUrlRaises ==
    /\ NextUrl
    /\ VideoIdOf[urls[idx + 1]].kind = "raise"
    /\ pc' = "raised"
    /\ UNCHANGED <<output_file, results, files, vstate>>

\* "Skipping invalid URL": no video ID
BatchInvalidUrl ==
    /\ NextUrl
    /\ LET url == urls[idx + 1]
           video_id == VideoIdOf[url]
       IN  /\ video_id.kind # "raise"
           /\ ~Truthy(video_id)
           /\ results' = Put(results, url, None)
    /\ vstate' = [vstate EXCEPT ![idx + 1] = "Failed"]
    /\ pc' = "loop"
    /\ UNCHANGED <<output_file, files>>

\* the file found at the output path of the next video; the directory is read
\* only when skip_existing is set
Found(path, f) ==
    /\ f \in (IF skip_existing THEN Observe(path) ELSE {NoFile})
    /\ files' = IF skip_existing THEN Put(files, path, f) ELSE files

\* "Skipping (already exists)"
BatchSkip ==
    /\ NextUrl
    /\ LET url == urls[idx + 1]
           video_id == VideoIdOf[url]
       IN  /\ Truthy(video_id)
           /\ \E title \in TitleOutcomes :
                LET path == OutputFileOf[urls[idx + 1], title]
                IN  \E f \in Observe(path) :
                        /\ Found(path, f)
                        /\ SkipsExisting(skip_existing, f)
                        /\ output_file' = path
                        /\ results' = Put(results, url, path)
    /\ vstate' = [vstate EXCEPT ![idx + 1] = "Skip"]
    /\ pc' = "loop"

\* the video is not skipped and the retry loop is entered
BatchStartAttempts ==
    /\ NextUrl
    /\ max_retries > 0
    /\ LET video_id == VideoIdOf[urls[idx + 1]]
       IN  /\ Truthy(video_id)
           /\ \E title \in TitleOutcomes :
                LET path == OutputFileOf[urls[idx + 1], title]
                IN  \E f \in Observe(path) :
                        /\ Found(path, f)
                        /\ ~SkipsExisting(skip_existing, f)
                        /\ output_file' = path
    /\ vstate' = [vstate EXCEPT ![idx + 1] = "Attempting"]
    /\ pc' = "attempt"
    /\ UNCHANGED results

\* the video is not skipped and range(max_retries) is empty: the body of the
\* retry loop never runs
BatchNoAttempts ==
    /\ NextUrl
    /\ max_retries <= 0
    /\ LET video_id == VideoIdOf[urls[idx + 1]]
       IN  /\ Truthy(video_id)
           /\ \E title \in TitleOutcomes :
                LET path == OutputFileOf[urls[idx + 1], title]
                IN  \E f \in Observe(path) :
                        /\ Found(path, f)
                        /\ ~SkipsExisting(skip_existing, f)
                        /\ output_file' = path
    /\ pc' = "loop"
    /\ UNCHANGED <<results, vstate>>

\* mutant of FilesAfterSave: the output file opened for writing before the
\* fetchers are called, so that a failing call leaves it empty
FilesAfterSaveOpensFirst(fs, path, r, n) ==
    Put(fs, path, IF r.ok THEN File(n) ELSE File(0))

\* the files after a save_transcript call with result r: the output file is
\* opened and written (n bytes) only once a fetcher has returned the markdown
FilesAfterSave(fs, path, r, n) ==
    IF r.ok THEN Put(fs, path, File(n)) ELSE fs

\* one save_transcript call of the retry loop, with the outcomes of the fetchers
Attempt(r) ==
    /\ pc = "attempt"
    /\ call' = r
    /\ fetches' = fetches + 1
    /\ \E n \in WrittenSizes : files' = FilesAfterSave(files, output_file, r, n)
    /\ UNCHANGED <<Params, idx, attempt, output_file, nonBatchVars>>

AttemptResults == SaveResults[use_playwright_fallback, playwright_available]

\* save_transcript returns: the file is written, the pacing sleep follows
BatchSaved ==
    \E r \in AttemptResults :
        /\ Attempt(r)
        /\ r.ok
        /\ results' = Put(results, urls[idx], output_file)
        /\ vstate' = [vstate EXCEPT ![idx] = "Success"]
        /\ sleeps' = IF PacesAfter(idx, total)
                     THEN Append(sleeps, Sleep("pacing", delay))
                     ELSE sleeps
        /\ pc' = "loop"

\* save_transcript raises a rate-limit error: the backoff sleep
BatchRateLimited ==
    \E r \in AttemptResults :
        /\ Attempt(r)
        /\ ~r.ok
        /\ r.error \in RateLimitErrors
        /\ sleeps' = Append(sleeps, Sleep("backoff", BackoffWait(delay, attempt)))
        /\ vstate' = [vstate EXCEPT ![idx] = "Retrying"]
        /\ pc' = "backoff"
        /\ UNCHANGED results

\* save_transcript raises another error: "Non-rate-limit error, log and skip"
BatchFailed ==
    \E r \in AttemptResults :
        /\ Attempt(r)
        /\ ~r.ok
        /\ r.error \notin RateLimitErrors
        /\ results' = Put(results, urls[idx], None)
        /\ vstate' = [vstate EXCEPT ![idx] = "Failed"]
        /\ pc' = "loop"
        /\ UNCHANGED sleeps

\* whether the attempt that just failed was the last of the retry budget
LastAttempt(k, retries) == k = retries - 1

\* after the backoff sleep: the next attempt
BatchRetry ==
    /\ pc = "backoff"
    /\ ~LastAttempt(attempt, max_retries)
    /\ attempt' = attempt + 1
    /\ vstate' = [vstate EXCEPT ![idx] = "Attempting"]
    /\ pc' = "attempt"
    /\ UNCHANGED <<Params, idx, output_file, results, files, fetches, sleeps, call, nonBatchVars>>

\* after the backoff sleep: "Failed after max_retries attempts"
BatchExhausted ==
    /\ pc = "backoff"
    /\ LastAttempt(attempt, max_retries)
    /\ results' = Put(results, urls[idx], None)
    /\ vstate' = [vstate EXCEPT ![idx] = "Failed"]
    /\ pc' = "loop"
    /\ UNCHANGED <<Params, idx, attempt, output_file, files, fetches, sleeps, call, nonBatchVars>>

\* return results
BatchReturn ==
    /\ pc = "loop"
    /\ idx = total
    /\ pc' = "returned"
    /\ UNCHANGED <<Params, idx, attempt, output_file, results, files, vstate,
                   fetches, sleeps, call, nonBatchVars>>

Next ==
    \/ BatchUrlRaises
    \/ BatchInvalidUrl
    \/ BatchSkip
    \/ BatchStartAttempts
    \/ BatchNoAttempts
    \/ BatchSaved
    \/ BatchRateLimited
    \/ BatchFailed
    \/ BatchRetry
    \/ BatchExhausted
    \/ BatchReturn

\* batches of several videos
Init == InitWith(MaxVideos, {MaxDelay}, 0..MaxBatchRetries)

Spec == Init /\ [][Next]_vars

\* the retry loop on batches of one video, over the delays and retry budgets
InitRetry == InitWith(1, 1..MaxDelay, 0..MaxRetries)

SpecRetry == InitRetry /\ [][Next]_vars

----------------------------------------------------------------------------
\* main, playlist mode: the summary "Downloaded successful/total transcripts"

SummarySuccessful == Cardinality({u \in DOMAIN results : results[u] # None})

SummaryTotal == Cardinality(DOMAIN results)

-----------------------------------------------------------------------------
\* the two formatters: paragraphs, timestamps, header

\* times are in tenths of a second
Seconds == 10

\* "gap > 2 seconds"
GapThreshold == 2 * Seconds

ParagraphMinLength == 100

SentenceEnds == {".", "!", "?"}

\* text.endswith(('.', '!', '?'))
EndsSentence(text) == Len(text) > 0 /\ text[Len(text)] \in SentenceEnds

\* ' '.join(parts)
RECURSIVE JoinWith(_, _)
JoinWith(parts, sep) ==
    IF Len(parts) = 0 THEN <<>>
    ELSE IF Len(parts) = 1 THEN parts[1]
    ELSE parts[1] \o sep \o JoinWith(Tail(parts), sep)

\* mutant of BreaksParagraph: a gap or a sentence end alone closes the paragraph
BreaksParagraphWithoutLength(time_gap, ends_sentence, joined) ==
    (time_gap > GapThreshold \/ ends_sentence) \/ Len(joined) > ParagraphMinLength

\* the test of line 330
BreaksParagraph(time_gap, ends_sentence, joined) ==
    (time_gap > GapThreshold \/ ends_sentence) /\ Len(joined) > ParagraphMinLength

\* format_timestamp
DigitChar(d) == <<"0", "1", "2", "3", "4", "5", "6", "7", "8", "9">>[d + 1]

RECURSIVE Decimal(_)
Decimal(n) == IF n < 10 THEN <<DigitChar(n)>> ELSE Decimal(n \div 10) \o <<DigitChar(n % 10)>>

\* f"{n:02d}"
Pad2(n) == IF n < 10 THEN <<"0">> \o Decimal(n) ELSE Decimal(n)

\* mutant of format_timestamp: the hours are always printed
format_timestamp_with_hours(seconds) ==
    LET total_seconds == seconds \div Seconds
        hours == total_seconds \div 3600
        minutes == (total_seconds % 3600) \div 60
        secs == total_seconds % 60
    IN  Pad2(hours) \o <<":">> \o Pad2(minutes) \o <<":">> \o Pad2(secs)

format_timestamp(seconds) ==
    LET total_seconds == seconds \div Seconds
        hours == total_seconds \div 3600
        minutes == (total_seconds % 3600) \div 60
        secs == total_seconds % 60
    IN  IF hours > 0
        THEN Pad2(hours) \o <<":">> \o Pad2(minutes) \o <<":">> \o Pad2(secs)
        ELSE Pad2(minutes) \o <<":">> \o Pad2(secs)

\* the header of the markdown (lines 301-306)
StrTitleLine ==
    <<"#"," ","Y","o","u","T","u","b","e"," ","T","r","a","n","s","c","r",
      "i","p","t","\n">>

StrVideoId ==
    <<"*","*","V","i","d","e","o"," ","I","D",":","*","*"," ">>

StrUrlLine ==
    <<"*","*","U","R","L",":","*","*"," ","h","t","t","p","s",":","/","/",
      "w","w","w",".","y","o","u","t","u","b","e",".","c","o","m","/","w",
      "a","t","c","h","?","v","=">>

StrLanguage ==
    <<"*","*","L","a","n","g","u","a","g","e",":","*","*"," ">>

StrGeneratedYes ==
    <<"*","*","G","e","n","e","r","a","t","e","d",":","*","*"," ","Y","e",
      "s","\n">>

StrGeneratedNo ==
    <<"*","*","G","e","n","e","r","a","t","e","d",":","*","*"," ","N","o",
      "\n">>

StrRule ==
    <<"-","-","-","\n">>

Header(video_id, track) ==
    << StrTitleLine,
       StrVideoId \o video_id,
       StrUrlLine \o video_id,
       StrLanguage \o track.language_code,
       IF track.is_generated THEN StrGeneratedYes ELSE StrGeneratedNo,
       StrRule >>

HeaderLines == 6

StrStampOpen ==
    <<"*","*","[">>

StrStampClose ==
    <<"]","*","*"," ">>

----------------------------------------------------------------------------
\* fetch_transcript_playwright

StrImportError ==
    <<"P","l","a","y","w","r","i","g","h","t"," ","i","s"," ","r","e","q",
      "u","i","r","e","d"," ","f","o","r"," ","f","a","l","l","b","a","c",
      "k",".">>

StrInvalidUrl ==
    <<"I","n","v","a","l","i","d"," ","Y","o","u","T","u","b","e"," ","U",
      "R","L",":"," ">>

StrInvalidIPv6 ==
    <<"I","n","v","a","l","i","d"," ","I","P","v","6"," ","U","R","L">>

StrLaunchFailed ==
    <<"B","r","o","w","s","e","r","T","y","p","e",".","l","a","u","n","c",
      "h",":"," ","E","x","e","c","u","t","a","b","l","e"," ","d","o","e",
      "s","n","'","t"," ","e","x","i","s","t">>

StrGotoFailed ==
    <<"P","a","g","e",".","g","o","t","o",":"," ","n","e","t",":",":","E",
      "R","R","_","N","A","M","E","_","N","O","T","_","R","E","S","O","L",
      "V","E","D">>

StrEvaluateFailed ==
    <<"P","a","g","e",".","e","v","a","l","u","a","t","e",":"," ","T","a",
      "r","g","e","t"," ","c","l","o","s","e","d">>

\* number of entries of transcript_button_selectors
ButtonSelectors == 4

\* what looking for one selector can give: wait_for_selector times out, the
\* element is not visible, it is visible and clicked, or the click raises
SelectorOutcomes == {"timeout", "hidden", "visible", "click_fails"}

\* number of selector families of the extraction script
SegmentFamilies == 3

\* elements a selector family can match: with or without a text element
ElementHi ==
    [has_text |-> TRUE,
     time |->
    <<"0",":","0","1">>,
     text |->
    <<"H","i",".">> ]

ElementBye ==
    [has_text |-> TRUE,
     time |->
    <<"0",":","0","5">>,
     text |->
    <<"B","y","e">> ]

ElementBare == [has_text |-> FALSE, time |-> <<>>, text |-> <<>>]

ElementPool == {ElementHi, ElementBye, ElementBare}

MaxElements == 2

ElementLists == UNION {[1..k -> ElementPool] : k \in 0..MaxElements}

\* the segments pushed for the elements of one family
FamilySegments(elements) ==
    LET withText == SelectSeq(elements, LAMBDA e : e.has_text)
    IN  [k \in 1..Len(withText) |-> [time |-> withText[k].time, text |-> withText[k].text]]

\* the loop over the selector families of the extraction script, from family f
RECURSIVE ExtractFrom(_, _, _)
ExtractFrom(families, f, segments) ==
    IF f > Len(families) THEN segments
    ELSE IF Len(families[f]) > 0
         THEN LET pushed == segments \o FamilySegments(families[f])
              IN  IF Len(pushed) > 0 THEN pushed
                  ELSE ExtractFrom(families, f + 1, pushed)
         ELSE ExtractFrom(families, f + 1, segments)

\* mutant of ExtractSegments: the loop over the families has no break
ExtractSegmentsMerging(families) ==
    FamilySegments(families[1]) \o FamilySegments(families[2])
        \o FamilySegments(families[3])

\* page.evaluate of the extraction script on a page with these families
ExtractSegments(families) == ExtractFrom(families, 1, <<>>)

\* the pages a video can show: for each selector family the elements it matches
Pages == [1..SegmentFamilies -> ElementLists]

\* a few pages: no transcript panel; segments in the first family; elements
\* without text in the first family and segments in the second; elements
\* without text only
PageSamples ==
    { <<<<>>, <<>>, <<>>>>,
      <<<<ElementHi, ElementBye>>, <<ElementBye>>, <<>>>>,
      <<<<ElementBare>>, <<ElementBye, ElementHi>>, <<ElementHi>>>>,
      <<<<ElementBare>>, <<>>, <<ElementBare, ElementBare>>>> }

StrSourceLine ==
    <<"*","*","S","o","u","r","c","e",":","*","*"," ","P","l","a","y","w",
      "r","i","g","h","t"," ","F","a","l","l","b","a","c","k","\n">>

\* the first lines of the markdown of fetch_transcript_playwright
PlaywrightHeader(video_id) ==
    << StrTitleLine,
       StrVideoId \o video_id,
       StrUrlLine \o video_id,
       StrSourceLine,
       StrRule >>

PlaywrightHeaderLines == 5

\* the lines of the segments with their timestamps (lines 470-473)
StampedLines(segments) ==
    [k \in 1..Len(segments) |->
        StrStampOpen \o segments[k].time \o StrStampClose \o segments[k].text \o <<"\n">>]

\* the test of line 481
BreaksPlaywrightParagraph(text, joined) ==
    EndsSentence(text) /\ Len(joined) > ParagraphMinLength

\* the loop of lines 476-483 from segment k on, and the flush of lines 485-486
RECURSIVE PlaywrightParagraphsFrom(_, _, _, _)
PlaywrightParagraphsFrom(segments, k, current_paragraph, lines) ==
    IF k > Len(segments)
    THEN IF Len(current_paragraph) > 0
         THEN Append(lines, JoinWith(current_paragraph, <<" ">>) \o <<"\n">>)
         ELSE lines
    ELSE LET current == Append(current_paragraph, segments[k].text)
             joined == JoinWith(current, <<" ">>)
         IN  IF BreaksPlaywrightParagraph(segments[k].text, joined)
             THEN PlaywrightParagraphsFrom(segments, k + 1, <<>>,
                        Append(lines, joined \o <<"\n">>))
             ELSE PlaywrightParagraphsFrom(segments, k + 1, current, lines)

\* the lines that follow the header
PlaywrightBody(segments, include_timestamps) ==
    IF include_timestamps THEN StampedLines(segments)
    ELSE PlaywrightParagraphsFrom(segments, 1, <<>>, <<>>)

\* mutant of PlaywrightStop: Playwright started without the with block, so
\* that nothing ends the browser when an exception leaves the function
PlaywrightStopLeaks(browser) == browser

\* leaving the block "with sync_playwright() as p": the driver is stopped,
\* which ends every browser it launched
PlaywrightStop(browser) == IF browser = "open" THEN "closed" ELSE browser

\* the state when fetch_transcript_playwright is entered
InitPlaywright ==
    /\ urls = <<>>
    /\ delay = 0
    /\ max_retries = 0
    /\ skip_existing = FALSE
    /\ use_playwright_fallback = TRUE
    /\ playwright_available \in BOOLEAN
    /\ pc = "idle"
    /\ idx = 0
    /\ attempt = 0
    /\ output_file = <<>>
    /\ results = <<>>
    /\ files = <<>>
    /\ vstate = <<>>
    /\ fetches = 0
    /\ sleeps = <<>>
    /\ call = NoCall
    /\ pw_pc = "start"
    /\ pw_url \in UrlPool
    /\ pw_driver = FALSE
    /\ pw_browser = "none"
    /\ pw_selector = 0
    /\ pw_tried = <<>>
    /\ pw_clicks = <<>>
    /\ pw_page \in PageSamples
    /\ pw_segments = <<>>
    /\ pw_error = <<>>
    /\ pw_timestamps \in BOOLEAN
    /\ pw_lines = <<>>
    /\ FnIdle
    /\ OthersIdle
    /\ MainIdle
    /\ FetchIdle

\* an exception inside the with block: the block is left, the except clause
\* wraps the exception
PwFails(e) ==
    /\ pw_driver' = FALSE
    /\ pw_browser' = PlaywrightStop(pw_browser)
    /\ pw_error' = fetch_transcript_playwright_error(e)
    /\ pw_pc' = "raised"

\* "Playwright is required for fallback"
PwImportError ==
    /\ pw_pc = "start"
    /\ ~playwright_available
    /\ pw_error' = StrImportError
    /\ pw_pc' = "raised"
    /\ UNCHANGED <<nonPwVars, pw_page, pw_timestamps, pw_lines, pw_url, pw_driver, pw_browser, pw_selector, pw_tried,
                   pw_clicks, pw_segments>>

\* no video ID, or extract_video_id raises
PwInvalidUrl ==
    /\ pw_pc = "start"
    /\ playwright_available
    /\ ~Truthy(VideoIdOf[pw_url])
    /\ pw_error' = IF VideoIdOf[pw_url].kind = "raise" THEN StrInvalidIPv6
                   ELSE StrInvalidUrl \o pw_url
    /\ pw_pc' = "raised"
    /\ UNCHANGED <<nonPwVars, pw_page, pw_timestamps, pw_lines, pw_url, pw_driver, pw_browser, pw_selector, pw_tried,
                   pw_clicks, pw_segments>>

\* with sync_playwright() as p
PwEnter ==
    /\ pw_pc = "start"
    /\ playwright_available
    /\ Truthy(VideoIdOf[pw_url])
    /\ pw_driver' = TRUE
    /\ pw_pc' = "launch"
    /\ UNCHANGED <<nonPwVars, pw_page, pw_timestamps, pw_lines, pw_url, pw_browser, pw_selector, pw_tried,
                   pw_clicks, pw_segments, pw_error>>

\* p.chromium.launch
PwLaunch ==
    /\ pw_pc = "launch"
    /\ pw_browser' = "open"
    /\ pw_pc' = "goto"
    /\ UNCHANGED <<nonPwVars, pw_page, pw_timestamps, pw_lines, pw_url, pw_driver, pw_selector, pw_tried,
                   pw_clicks, pw_segments, pw_error>>

PwLaunchFails ==
    /\ pw_pc = "launch"
    /\ PwFails(StrLaunchFailed)
    /\ UNCHANGED <<nonPwVars, pw_page, pw_timestamps, pw_lines, pw_url, pw_selector, pw_tried, pw_clicks,
                   pw_segments>>

\* new_context, new_page, goto, the waits and the scroll
PwGoto ==
    /\ pw_pc = "goto"
    /\ pw_selector' = 1
    /\ pw_pc' = "buttons"
    /\ UNCHANGED <<nonPwVars, pw_page, pw_timestamps, pw_lines, pw_url, pw_driver, pw_browser, pw_tried,
                   pw_clicks, pw_segments, pw_error>>

PwGotoFails ==
    /\ pw_pc = "goto"
    /\ PwFails(StrGotoFailed)
    /\ UNCHANGED <<nonPwVars, pw_page, pw_timestamps, pw_lines, pw_url, pw_selector, pw_tried, pw_clicks,
                   pw_segments>>

\* mutant of Clicks: button.is_visible() is not looked at
ClicksHidden(outcome) == outcome \in {"visible", "hidden"}

\* whether the element found for a selector is clicked and the loop left: the
\* element is visible and button.click() returns
Clicks(outcome) == outcome = "visible"

\* one round of the loop over transcript_button_selectors
PwTrySelector ==
    /\ pw_pc = "buttons"
    /\ pw_selector <= ButtonSelectors
    /\ \E outcome \in SelectorOutcomes :
        /\ pw_tried' = Append(pw_tried, outcome)
        /\ IF Clicks(outcome)
           THEN /\ pw_clicks' = Append(pw_clicks, pw_selector)
                /\ pw_pc' = "extract"
                /\ UNCHANGED pw_selector
           ELSE /\ pw_selector' = pw_selector + 1
                /\ UNCHANGED <<pw_clicks, pw_pc>>
    /\ UNCHANGED <<nonPwVars, pw_page, pw_timestamps, pw_lines, pw_url, pw_driver, pw_browser, pw_segments, pw_error>>

\* "Could not find transcript button on page"
PwNoButton ==
    /\ pw_pc = "buttons"
    /\ pw_selector > ButtonSelectors
    /\ PwFails(StrNoButton)
    /\ UNCHANGED <<nonPwVars, pw_page, pw_timestamps, pw_lines, pw_url, pw_selector, pw_tried, pw_clicks,
                   pw_segments>>

\* page.evaluate of the extraction script
PwExtract ==
    /\ pw_pc = "extract"
    /\ pw_segments' = ExtractSegments(pw_page)
    /\ pw_pc' = "close"
    /\ UNCHANGED <<nonPwVars, pw_page, pw_timestamps, pw_lines, pw_url, pw_driver, pw_browser, pw_selector, pw_tried,
                   pw_clicks, pw_error>>

PwExtractFails ==
    /\ pw_pc = "extract"
    /\ PwFails(StrEvaluateFailed)
    /\ UNCHANGED <<nonPwVars, pw_page, pw_timestamps, pw_lines, pw_url, pw_selector, pw_tried, pw_clicks,
                   pw_segments>>

\* browser.close()
PwClose ==
    /\ pw_pc = "close"
    /\ pw_browser' = "closed"
    /\ pw_pc' = "format"
    /\ UNCHANGED <<nonPwVars, pw_page, pw_timestamps, pw_lines, pw_url, pw_driver, pw_selector, pw_tried,
                   pw_clicks, pw_segments, pw_error>>

\* "No transcript segments found"
PwNoSegments ==
    /\ pw_pc = "format"
    /\ Len(pw_segments) = 0
    /\ PwFails(StrNoSegments)
    /\ UNCHANGED <<nonPwVars, pw_page, pw_timestamps, pw_lines, pw_url, pw_selector, pw_tried, pw_clicks,
                   pw_segments>>

\* the markdown is returned: the with block is left
PwReturn ==
    /\ pw_pc = "format"
    /\ Len(pw_segments) > 0
    /\ pw_lines' = PlaywrightHeader(VideoIdOf[pw_url].value)
                        \o PlaywrightBody(pw_segments, pw_timestamps)
    /\ pw_driver' = FALSE
    /\ pw_browser' = PlaywrightStop(pw_browser)
    /\ pw_pc' = "returned"
    /\ UNCHANGED <<nonPwVars, pw_page, pw_timestamps, pw_url, pw_selector, pw_tried,
                   pw_clicks, pw_segments, pw_error>>

\* the state when page.evaluate is reached: the transcript button was clicked
InitExtract ==
    /\ urls = <<>>
    /\ delay = 0
    /\ max_retries = 0
    /\ skip_existing = FALSE
    /\ use_playwright_fallback = TRUE
    /\ playwright_available = TRUE
    /\ pc = "idle"
    /\ idx = 0
    /\ attempt = 0
    /\ output_file = <<>>
    /\ results = <<>>
    /\ files = <<>>
    /\ vstate = <<>>
    /\ fetches = 0
    /\ sleeps = <<>>
    /\ call = NoCall
    /\ pw_pc = "extract"
    /\ pw_url = UrlWatch
    /\ pw_driver = TRUE
    /\ pw_browser = "open"
    /\ pw_selector = 1
    /\ pw_tried = <<"visible">>
    /\ pw_clicks = <<1>>
    /\ pw_page \in Pages
    /\ pw_segments = <<>>
    /\ pw_error = <<>>
    /\ pw_timestamps = FALSE
    /\ pw_lines = <<>>
    /\ FnIdle
    /\ OthersIdle
    /\ MainIdle
    /\ FetchIdle

NextExtract ==
    \/ PwExtract
    \/ PwExtractFails
    \/ PwClose
    \/ PwNoSegments
    \/ PwReturn

SpecExtract == InitExtract /\ [][NextExtract]_vars

NextPlaywright ==
    \/ PwImportError
    \/ PwInvalidUrl
    \/ PwEnter
    \/ PwLaunch
    \/ PwLaunchFails
    \/ PwGoto
    \/ PwGotoFails
    \/ PwTrySelector
    \/ PwNoButton
    \/ PwExtract
    \/ PwExtractFails
    \/ PwClose
    \/ PwNoSegments
    \/ PwReturn

SpecPlaywright == InitPlaywright /\ [][NextPlaywright]_vars

----------------------------------------------------------------------------
\* main: the command line

StrListParam ==
    <<"l","i","s","t","=">>

StrPlaylistPath ==
    <<"/","p","l","a","y","l","i","s","t","?">>

is_playlist_url(url) == Contains(url, StrListParam) \/ Contains(url, StrPlaylistPath)

UrlPlaylist ==
    <<"h","t","t","p","s",":","/","/","w","w","w",".","y","o","u","t","u",
      "b","e",".","c","o","m","/","p","l","a","y","l","i","s","t","?","l",
      "i","s","t","=","P","L","5","9","0","L","5","W","Q","m","H","8","f">>

\* the values of the argument url
MainUrls == UrlPool \cup {UrlPlaylist}

\* args.output of a single video
StrOutputPath ==
    <<"o","u","t",".","m","d">>

StrErrorPrefix ==
    <<"E","r","r","o","r",":"," ">>

StrPlaylistFailed ==
    <<"F","a","i","l","e","d"," ","t","o"," ","f","e","t","c","h"," ","p",
      "l","a","y","l","i","s","t"," ","v","i","d","e","o","s",":"," ">>

StrPytubeMissing ==
    <<"p","y","t","u","b","e"," ","i","s"," ","r","e","q","u","i","r","e",
      "d"," ","f","o","r"," ","p","l","a","y","l","i","s","t"," ","s","u",
      "p","p","o","r","t",".">>

\* what fetch_playlist_videos, or os.makedirs, can raise
PlaylistErrors ==
    { StrPytubeMissing,
      StrPlaylistFailed \o
    <<"r","e","g","e","x","_","s","e","a","r","c","h",":"," ","c","o","u",
      "l","d"," ","n","o","t"," ","f","i","n","d"," ","m","a","t","c","h">> }

Playlists == UNION {[1..k -> PlaylistVideos] : k \in 0..MaxVideos}

\* what fetch_transcript(url) does for a URL given on the command line: the
\* ValueError of line 279, or that of urlparse, is raised before the try block
ApiOutcomesFor(url) ==
    LET video_id == extract_video_id(url)
    IN  IF video_id.kind = "raise" THEN {Err(StrInvalidIPv6)}
        ELSE IF ~Truthy(video_id) THEN {Err(StrInvalidUrl \o url)}
        ELSE ApiOutcomes

\* what fetch_transcript_playwright(url) does for such a URL (lines 370-372)
PlaywrightOutcomesFor(url) ==
    LET video_id == extract_video_id(url)
    IN  IF video_id.kind = "raise" THEN {Err(StrInvalidIPv6)}
        ELSE IF ~Truthy(video_id) THEN {Err(StrInvalidUrl \o url)}
        ELSE PlaywrightOutcomes

\* the save_transcript calls of main, by URL and fallback flags, computed once
MainSaveResults ==
    [u \in UrlPool, fb \in BOOLEAN, av \in BOOLEAN |->
        {save_transcript(api, pw, fb, av) :
            api \in ApiOutcomesFor(u), pw \in PlaywrightOutcomesFor(u)}]

\* the fetch_transcript call of the stdout path ("API only, no fallback for
\* stdout"), recorded like a save_transcript call
FetchOnly(api) ==
    [ok |-> api.ok, source |-> IF api.ok THEN "API" ELSE "none",
     api_error |-> api.msg, fallback_invoked |-> FALSE, fallback_error |-> <<>>,
     error |-> api.msg]

MainFetchResults == [u \in UrlPool |-> {FetchOnly(api) : api \in ApiOutcomesFor(u)}]

\* mutant of ExitCode: the except clause of main without sys.exit(1)
ExitCodeZero(ok) == 0

\* exit code of main: 0 when the try block ends, sys.exit(1) in the except clause
ExitCode(ok) == IF ok THEN 0 ELSE 1

InitMain ==
    /\ urls = <<>>
    /\ delay = MaxDelay
    /\ max_retries \in 0..MaxBatchRetries
    /\ skip_existing = TRUE
    /\ use_playwright_fallback \in BOOLEAN
    /\ playwright_available \in BOOLEAN
    /\ pc = "idle"
    /\ idx = 0
    /\ attempt = 0
    /\ output_file = <<>>
    /\ results = <<>>
    /\ files = <<>>
    /\ vstate = <<>>
    /\ fetches = 0
    /\ sleeps = <<>>
    /\ call = NoCall
    /\ pw_pc = "idle"
    /\ pw_url = <<>>
    /\ pw_driver = FALSE
    /\ pw_browser = "none"
    /\ pw_selector = 0
    /\ pw_tried = <<>>
    /\ pw_clicks = <<>>
    /\ pw_page = <<>>
    /\ pw_segments = <<>>
    /\ pw_error = <<>>
    /\ pw_timestamps = FALSE
    /\ pw_lines = <<>>
    /\ FnIdle
    /\ OthersIdle
    /\ m_pc = "start"
    /\ m_url \in MainUrls
    /\ m_output \in BOOLEAN
    /\ m_no_formatting = FALSE
    /\ m_exit = -1
    /\ m_stderr = <<>>
    /\ m_printed = "nothing"
    /\ FetchIdle

\* the except clause of main, or the end of its try block
MainExits(ok, error, printed) ==
    /\ m_exit' = ExitCode(ok)
    /\ m_stderr' = IF ok THEN m_stderr ELSE StrErrorPrefix \o error
    /\ m_printed' = IF ok THEN printed ELSE m_printed
    /\ m_pc' = "exited"
    /\ UNCHANGED <<m_url, m_output, m_no_formatting>>

\* playlist mode: fetch_playlist_videos or os.makedirs raises
MainPlaylistFails ==
    /\ m_pc = "start"
    /\ is_playlist_url(m_url)
    /\ \E e \in PlaylistErrors : MainExits(FALSE, e, "nothing")
    /\ UNCHANGED <<batchVars, pwVars, fnVars, ftVars, otherVars>>

\* playlist mode: fetch_playlist_transcripts calls batch_fetch on the videos of
\* the playlist, with skip_existing set
MainPlaylist ==
    /\ m_pc = "start"
    /\ is_playlist_url(m_url)
    /\ urls' \in Playlists
    /\ vstate' = [i \in 1..Len(urls') |-> "Pending"]
    /\ pc' = "loop"
    /\ m_pc' = "batch"
    /\ UNCHANGED <<delay, max_retries, skip_existing, use_playwright_fallback,
                   playwright_available, idx, attempt, output_file, results,
                   files, fetches, sleeps, call, pwVars, fnVars, ftVars, otherVars, m_url,
                   m_output, m_exit, m_stderr, m_printed, m_no_formatting>>

\* playlist mode: batch_fetch has returned, the summary is printed
MainSummary ==
    /\ m_pc = "batch"
    /\ pc = "returned"
    /\ MainExits(TRUE, <<>>, "summary")
    /\ UNCHANGED <<batchVars, pwVars, fnVars, ftVars, otherVars>>

\* single video with -o: save_transcript
MainSave ==
    /\ m_pc = "start"
    /\ ~is_playlist_url(m_url)
    /\ m_output
    /\ \E r \in MainSaveResults[m_url, use_playwright_fallback, playwright_available] :
        /\ call' = r
        /\ \E n \in WrittenSizes : files' = FilesAfterSave(files, StrOutputPath, r, n)
        /\ MainExits(r.ok, r.error, "saved")
    /\ fetches' = fetches + 1
    /\ output_file' = StrOutputPath
    /\ UNCHANGED <<Params, pc, idx, attempt, results, vstate, sleeps, pwVars, fnVars, ftVars, otherVars>>

\* single video without -o: fetch_transcript, the markdown is printed
MainStdout ==
    /\ m_pc = "start"
    /\ ~is_playlist_url(m_url)
    /\ ~m_output
    /\ \E r \in MainFetchResults[m_url] :
        /\ call' = r
        /\ MainExits(r.ok, r.error, "markdown")
    /\ fetches' = fetches + 1
    /\ UNCHANGED <<Params, pc, idx, attempt, output_file, results, files, vstate,
                   sleeps, pwVars, fnVars, ftVars, otherVars>>

\* the steps of batch_fetch on the videos of a playlist: each has a video ID
NextMain ==
    \/ MainPlaylistFails
    \/ MainPlaylist
    \/ BatchSkip
    \/ BatchStartAttempts
    \/ BatchNoAttempts
    \/ BatchSaved
    \/ BatchRateLimited
    \/ BatchFailed
    \/ BatchRetry
    \/ BatchExhausted
    \/ BatchReturn
    \/ MainSummary
    \/ MainSave
    \/ MainStdout

SpecMain == InitMain /\ [][NextMain]_vars

----------------------------------------------------------------------------
\* fetch_transcript

\* the tracks a video can have: language code, and whether auto-generated
StrEn ==
    <<"e","n">>

StrDe ==
    <<"d","e">>

Track(code, generated) == [language_code |-> code, is_generated |-> generated]

TrackPool == {Track(c, g) : c \in {StrEn, StrDe}, g \in BOOLEAN}

\* mutant of FindAttempts: the generated English track looked for first
FindAttemptsGeneratedFirst == <<"generated_en", "requested", "first_available">>

\* the track lookups of lines 287-295, in the order they are tried
FindAttempts == <<"requested", "generated_en", "first_available">>

\* the tracks a lookup can return: find_transcript([language]),
\* find_generated_transcript(['en']), and the lookup of the first listed track
FindCandidates(kind, language) ==
    CASE kind = "requested" -> {t \in TrackPool : t.language_code = language}
      [] kind = "generated_en" -> {Track(StrEn, TRUE)}
      [] kind = "first_available" -> TrackPool

StrNoTranscriptFound ==
    <<"N","o"," ","t","r","a","n","s","c","r","i","p","t","s"," ","w","e",
      "r","e"," ","f","o","u","n","d"," ","f","o","r"," ","a","n","y"," ",
      "o","f"," ","t","h","e"," ","r","e","q","u","e","s","t","e","d"," ",
      "l","a","n","g","u","a","g","e"," ","c","o","d","e","s">>

StrIndexError ==
    <<"l","i","s","t"," ","i","n","d","e","x"," ","o","u","t"," ","o","f",
      " ","r","a","n","g","e">>

\* texts of the exceptions a lookup can raise
FindErrors(kind) ==
    IF kind = "first_available" THEN {StrNoTranscriptFound, StrIndexError}
    ELSE {StrNoTranscriptFound}

\* texts of the snippets
SnippetTexts ==
    {
    <<" ","s","o"," ","t","h","i","s"," ","i","s"," ","t","h","e"," ","f",
      "i","r","s","t"," ","t","h","i","n","g"," ","t","h","a","t"," ","w",
      "e"," ","w","a","n","t"," ","t","o"," ","l","o","o","k"," ","a","t",
      "\n">>,
    <<"a","n","d"," ","t","h","a","t"," ","i","s"," ","h","o","w"," ","t",
      "h","e"," ","w","h","o","l","e"," ","s","y","s","t","e","m"," ","f",
      "i","t","s"," ","t","o","g","e","t","h","e","r"," ","o","k",".">>,
    <<" ","w","h","i","c","h"," ","o","n","e"," ","o","f"," ","t","h","e",
      "s","e"," ","w","o","u","l","d"," ","y","o","u"," ","p","i","c","k",
      " ","f","o","r"," ","a"," ","n","e","w"," ","j","o","b","s","!">>,
    <<"w","e"," ","k","e","e","p"," ","g","o","i","n","g"," ","a","n","d",
      " ","g","o","i","n","g"," ","w","i","t","h","o","u","t"," ","a"," ",
      "p","a","u","s","e"," ","a","t"," ","a","l","l"," ","b","e","c","a",
      "u","s","e"," ","n","o","b","o","d","y"," ","e","v","e","r"," ","t",
      "o","l","d"," ","u","s"," ","w","h","e","r","e"," ","a"," ","s","e",
      "n","t","e","n","c","e"," ","m","u","s","t"," ","s","t","o","p">> }

Snippet(text, start, duration) == [text |-> text, start |-> start, duration |-> duration]

\* a snippet starts 1 or 4 seconds after the one before (the first one after
\* time 0) and lasts 1 or 2 seconds
StartSteps == {1 * Seconds, 4 * Seconds}

Durations == {1 * Seconds, 2 * Seconds}

LastStart(snippets) == IF Len(snippets) = 0 THEN 0 ELSE snippets[Len(snippets)].start

RECURSIVE SnippetLists(_)
SnippetLists(n) ==
    IF n = 0 THEN {<<>>}
    ELSE LET shorter == SnippetLists(n - 1)
         IN  shorter \cup
             {Append(l, Snippet(t, LastStart(l) + s, d)) :
                l \in {x \in shorter : Len(x) = n - 1},
                t \in SnippetTexts, s \in StartSteps, d \in Durations}

\* the transcripts of the provider when the track lookups are looked at: none,
\* and one of two snippets starting after an hour
SampleTranscripts ==
    { <<>>,
      << Snippet(
    <<"a","n","d"," ","t","h","a","t"," ","i","s"," ","h","o","w"," ","t",
      "h","e"," ","w","h","o","l","e"," ","s","y","s","t","e","m"," ","f",
      "i","t","s"," ","t","o","g","e","t","h","e","r"," ","o","k",".">>, 36005, 20),
         Snippet(
    <<" ","w","h","i","c","h"," ","o","n","e"," ","o","f"," ","t","h","e",
      "s","e"," ","w","o","u","l","d"," ","y","o","u"," ","p","i","c","k",
      " ","f","o","r"," ","a"," ","n","e","w"," ","j","o","b","s","!">>, 36615, 10) >> }

\* the state when fetch_transcript is entered
InitFetch ==
    /\ urls = <<>>
    /\ delay = 0
    /\ max_retries = 0
    /\ skip_existing = FALSE
    /\ use_playwright_fallback = FALSE
    /\ playwright_available = FALSE
    /\ pc = "idle"
    /\ idx = 0
    /\ attempt = 0
    /\ output_file = <<>>
    /\ results = <<>>
    /\ files = <<>>
    /\ vstate = <<>>
    /\ fetches = 0
    /\ sleeps = <<>>
    /\ call = NoCall
    /\ pw_pc = "idle"
    /\ pw_url = <<>>
    /\ pw_driver = FALSE
    /\ pw_browser = "none"
    /\ pw_selector = 0
    /\ pw_tried = <<>>
    /\ pw_clicks = <<>>
    /\ pw_page = <<>>
    /\ pw_segments = <<>>
    /\ pw_error = <<>>
    /\ pw_timestamps = FALSE
    /\ pw_lines = <<>>
    /\ FnIdle
    /\ OthersIdle
    /\ MainIdle
    /\ ft_pc = "start"
    /\ ft_url \in {UrlWatch, UrlInvalid, UrlBadHost}
    /\ ft_language \in {StrEn, StrDe}
    /\ ft_timestamps \in BOOLEAN
    /\ ft_formatting \in BOOLEAN
    /\ ft_attempts = <<>>
    /\ ft_track = NoTrack
    /\ ft_snippets \in SampleTranscripts
    /\ ft_i = 0
    /\ ft_paragraph = <<>>
    /\ ft_last_end = 0
    /\ ft_lines = <<>>
    /\ ft_breaks = {}
    /\ ft_ret = <<>>

\* the state when api.fetch has returned the snippets of a manual English
\* track, in paragraph mode
InitParagraphs ==
    /\ urls = <<>>
    /\ delay = 0
    /\ max_retries = 0
    /\ skip_existing = FALSE
    /\ use_playwright_fallback = FALSE
    /\ playwright_available = FALSE
    /\ pc = "idle"
    /\ idx = 0
    /\ attempt = 0
    /\ output_file = <<>>
    /\ results = <<>>
    /\ files = <<>>
    /\ vstate = <<>>
    /\ fetches = 0
    /\ sleeps = <<>>
    /\ call = NoCall
    /\ pw_pc = "idle"
    /\ pw_url = <<>>
    /\ pw_driver = FALSE
    /\ pw_browser = "none"
    /\ pw_selector = 0
    /\ pw_tried = <<>>
    /\ pw_clicks = <<>>
    /\ pw_page = <<>>
    /\ pw_segments = <<>>
    /\ pw_error = <<>>
    /\ pw_timestamps = FALSE
    /\ pw_lines = <<>>
    /\ FnIdle
    /\ OthersIdle
    /\ MainIdle
    /\ ft_pc = "format"
    /\ ft_url = UrlWatch
    /\ ft_language = StrEn
    /\ ft_timestamps = FALSE
    /\ ft_formatting = TRUE
    /\ ft_attempts = <<[kind |-> "requested", ok |-> TRUE]>>
    /\ ft_track = Track(StrEn, FALSE)
    /\ ft_snippets \in SnippetLists(MaxSnippets)
    /\ ft_i = 0
    /\ ft_paragraph = <<>>
    /\ ft_last_end = 0
    /\ ft_lines = Header(VideoIdOf[UrlWatch].value, Track(StrEn, FALSE))
    /\ ft_breaks = {}
    /\ ft_ret = <<>>

FtRaises(e) ==
    /\ ft_ret' = e
    /\ ft_pc' = "raised"

\* lines 277-279: no video ID (ValueError), or urlparse raises
FtInvalidUrl ==
    /\ ft_pc = "start"
    /\ ~Truthy(VideoIdOf[ft_url])
    /\ FtRaises(IF VideoIdOf[ft_url].kind = "raise" THEN StrInvalidIPv6
                ELSE StrInvalidUrl \o ft_url)
    /\ UNCHANGED <<nonFtVars, ft_url, ft_language, ft_timestamps, ft_formatting,
                   ft_attempts, ft_track, ft_snippets, ft_i, ft_paragraph,
                   ft_last_end, ft_lines, ft_breaks>>

\* api.list(video_id) returns the list of tracks
FtList ==
    /\ ft_pc = "start"
    /\ Truthy(VideoIdOf[ft_url])
    /\ ft_pc' = "find"
    /\ UNCHANGED <<nonFtVars, ft_url, ft_language, ft_timestamps, ft_formatting,
                   ft_attempts, ft_track, ft_snippets, ft_i, ft_paragraph,
                   ft_last_end, ft_lines, ft_breaks, ft_ret>>

\* api.list(video_id) raises
FtListFails ==
    /\ ft_pc = "start"
    /\ Truthy(VideoIdOf[ft_url])
    /\ \E e \in ApiErrors : FtRaises(fetch_transcript_error(e))
    /\ UNCHANGED <<nonFtVars, ft_url, ft_language, ft_timestamps, ft_formatting,
                   ft_attempts, ft_track, ft_snippets, ft_i, ft_paragraph,
                   ft_last_end, ft_lines, ft_breaks>>

\* one track lookup returns a track
FtFound ==
    /\ ft_pc = "find"
    /\ LET kind == FindAttempts[Len(ft_attempts) + 1]
       IN  /\ ft_track' \in FindCandidates(kind, ft_language)
           /\ ft_attempts' = Append(ft_attempts, [kind |-> kind, ok |-> TRUE])
    /\ ft_pc' = "fetch"
    /\ UNCHANGED <<nonFtVars, ft_url, ft_language, ft_timestamps, ft_formatting,
                   ft_snippets, ft_i, ft_paragraph, ft_last_end, ft_lines,
                   ft_breaks, ft_ret>>

\* one track lookup raises: the next lookup is tried, and the exception of the
\* last lookup reaches the outer except clause
FtNotFound ==
    /\ ft_pc = "find"
    /\ LET kind == FindAttempts[Len(ft_attempts) + 1]
       IN  /\ ft_attempts' = Append(ft_attempts, [kind |-> kind, ok |-> FALSE])
           /\ IF Len(ft_attempts) + 1 = Len(FindAttempts)
              THEN \E e \in FindErrors(kind) : FtRaises(fetch_transcript_error(e))
              ELSE UNCHANGED <<ft_pc, ft_ret>>
    /\ UNCHANGED <<nonFtVars, ft_url, ft_language, ft_timestamps, ft_formatting,
                   ft_track, ft_snippets, ft_i, ft_paragraph, ft_last_end,
                   ft_lines, ft_breaks>>

\* api.fetch returns the snippets of the track: the header is written
FtFetch ==
    /\ ft_pc = "fetch"
    /\ ft_lines' = Header(VideoIdOf[ft_url].value, ft_track)
    /\ ft_pc' = "format"
    /\ UNCHANGED <<nonFtVars, ft_url, ft_language, ft_timestamps, ft_formatting,
                   ft_attempts, ft_track, ft_snippets, ft_i, ft_paragraph,
                   ft_last_end, ft_breaks, ft_ret>>

\* api.fetch raises
FtFetchFails ==
    /\ ft_pc = "fetch"
    /\ \E e \in ApiErrors : FtRaises(fetch_transcript_error(e))
    /\ UNCHANGED <<nonFtVars, ft_url, ft_language, ft_timestamps, ft_formatting,
                   ft_attempts, ft_track, ft_snippets, ft_i, ft_paragraph,
                   ft_last_end, ft_lines, ft_breaks>>

\* one round of the loop over the snippets with timestamps (lines 310-313)
FtStampedSnippet ==
    /\ ft_pc = "format"
    /\ ft_timestamps
    /\ ft_i < Len(ft_snippets)
    /\ LET snippet == ft_snippets[ft_i + 1]
           timestamp == format_timestamp(snippet.start)
           text == Strip(snippet.text, Whitespace)
       IN  ft_lines' = Append(ft_lines,
                StrStampOpen \o timestamp \o StrStampClose \o text \o <<"\n">>)
    /\ ft_i' = ft_i + 1
    /\ UNCHANGED <<nonFtVars, ft_pc, ft_url, ft_language, ft_timestamps,
                   ft_formatting, ft_attempts, ft_track, ft_snippets,
                   ft_paragraph, ft_last_end, ft_breaks, ft_ret>>

\* one round of the loop over the snippets in paragraph mode (lines 320-334)
FtParagraphSnippet ==
    /\ ft_pc = "format"
    /\ ~ft_timestamps
    /\ ft_formatting
    /\ ft_i < Len(ft_snippets)
    /\ LET snippet == ft_snippets[ft_i + 1]
           text == Strip(snippet.text, Whitespace)
           time_gap == snippet.start - ft_last_end
           current_paragraph == Append(ft_paragraph, text)
           joined == JoinWith(current_paragraph, <<" ">>)
       IN  /\ IF BreaksParagraph(time_gap, EndsSentence(text), joined)
              THEN /\ ft_lines' = Append(ft_lines, joined \o <<"\n">>)
                   /\ ft_paragraph' = <<>>
                   /\ ft_breaks' = ft_breaks \cup {ft_i + 1}
              ELSE /\ ft_paragraph' = current_paragraph
                   /\ UNCHANGED <<ft_lines, ft_breaks>>
           /\ ft_last_end' = snippet.start + snippet.duration
    /\ ft_i' = ft_i + 1
    /\ UNCHANGED <<nonFtVars, ft_pc, ft_url, ft_language, ft_timestamps,
                   ft_formatting, ft_attempts, ft_track, ft_snippets, ft_ret>>

\* simple mode: all the text in one paragraph (lines 341-342)
SimpleText(snippets) ==
    JoinWith([k \in 1..Len(snippets) |-> Strip(snippets[k].text, Whitespace)], <<" ">>)

\* mutant of FinalLines: the paragraph left at the end is not added
FinalLinesWithoutFlush ==
    IF ft_timestamps \/ ft_formatting THEN ft_lines
    ELSE Append(ft_lines, SimpleText(ft_snippets))

\* the lines as they are when the markdown is joined: the loops are over, the
\* remaining paragraph is added, or all the text is in simple mode
FinalLines ==
    IF ft_timestamps THEN ft_lines
    ELSE IF ft_formatting
         THEN IF Len(ft_paragraph) > 0
              THEN Append(ft_lines, JoinWith(ft_paragraph, <<" ">>) \o <<"\n">>)
              ELSE ft_lines
    ELSE Append(ft_lines, SimpleText(ft_snippets))

\* return '\n'.join(markdown_lines)
FtReturn ==
    /\ ft_pc = "format"
    /\ (ft_timestamps \/ ft_formatting) => ft_i = Len(ft_snippets)
    /\ ft_lines' = FinalLines
    /\ ft_paragraph' = <<>>
    /\ ft_ret' = JoinWith(FinalLines, <<"\n">>)
    /\ ft_pc' = "returned"
    /\ UNCHANGED <<nonFtVars, ft_url, ft_language, ft_timestamps, ft_formatting,
                   ft_attempts, ft_track, ft_snippets, ft_i, ft_last_end,
                   ft_breaks>>

NextFetch ==
    \/ FtInvalidUrl
    \/ FtList
    \/ FtListFails
    \/ FtFound
    \/ FtNotFound
    \/ FtFetch
    \/ FtFetchFails
    \/ FtStampedSnippet
    \/ FtParagraphSnippet
    \/ FtReturn

SpecFetch == InitFetch /\ [][NextFetch]_vars

\* the paragraph mode alone
NextParagraphs ==
    \/ FtParagraphSnippet
    \/ FtReturn

SpecParagraphs == InitParagraphs /\ [][NextParagraphs]_vars

----------------------------------------------------------------------------
\* extract_video_id and sanitize_filename called on their own

\* the strings an ID is taken from: well formed, too short, too long, with a
\* character outside [A-Za-z0-9_-], empty
IdPool ==
    {
    <<"d","Q","w","4","w","9","W","g","X","c","Q">>,
    <<"a","_","b","-","c","_","d","-","e","_","8">>,
    <<"a","b","c">>,
    <<"d","Q","w","4","w","9","W","g","X","c","Q","1">>,
    <<"d","Q","w","4","w","9","W","!","X","c","Q">>,
    <<>> }

Schemes ==
    {
    <<"h","t","t","p","s",":","/","/">>,
    <<>> }

\* the input shapes: the four URL shapes, the bare ID, a watch URL without v=
\* and a URL of another site
Shapes == {"watch", "short", "embed", "v", "bare", "watch_no_v", "other"}

ShapeHead(shape) ==
    CASE shape = "watch" ->
    <<"w","w","w",".","y","o","u","t","u","b","e",".","c","o","m","/","w",
      "a","t","c","h","?","v","=">>
      [] shape = "short" ->
    <<"y","o","u","t","u",".","b","e","/">>
      [] shape = "embed" ->
    <<"w","w","w",".","y","o","u","t","u","b","e",".","c","o","m","/","e",
      "m","b","e","d","/">>
      [] shape = "v" ->
    <<"w","w","w",".","y","o","u","t","u","b","e",".","c","o","m","/","v",
      "/">>
      [] shape = "bare" -> <<>>
      [] shape = "watch_no_v" ->
    <<"w","w","w",".","y","o","u","t","u","b","e",".","c","o","m","/","w",
      "a","t","c","h","?","l","i","s","t","=">>
      [] shape = "other" ->
    <<"v","i","m","e","o",".","c","o","m","/">>

\* what follows the ID: nothing, a trailing slash, one more query parameter
Extras == {"none", "slash", "query"}

ExtraTail(shape, extra) ==
    CASE extra = "none" -> <<>>
      [] extra = "slash" -> <<"/">>
      [] extra = "query" ->
            IF shape \in {"watch", "watch_no_v"}
            THEN
    <<"&","t","=","1","0","s">>
            ELSE
    <<"?","t","=","1","0","s">>

UrlText(scheme, shape, id, extra) ==
    (IF shape = "bare" THEN <<>> ELSE scheme) \o ShapeHead(shape) \o id
        \o ExtraTail(shape, extra)

Arg(text, shape, id, extra) == [text |-> text, shape |-> shape, id |-> id, extra |-> extra]

\* inputs that fit several of the checks, or that make urlparse raise
MixedUrls ==
    {
    <<"h","t","t","p","s",":","/","/","w","w","w",".","y","o","u","t","u",
      "b","e",".","c","o","m","/","w","a","t","c","h","?","v","=","d","Q",
      "w","4","w","9","W","g","X","c","Q","&","u","=","y","o","u","t","u",
      ".","b","e","/","9","b","Z","k","p","7","q","1","9","f","0">>,
    <<"h","t","t","p","s",":","/","/","y","o","u","t","u",".","b","e","/",
      "d","Q","w","4","w","9","W","g","X","c","Q","?","u","=","y","o","u",
      "t","u","b","e",".","c","o","m","/","e","m","b","e","d","/","9","b",
      "Z","k","p","7","q","1","9","f","0">>,
    <<"h","t","t","p","s",":","/","/","w","w","w",".","y","o","u","t","u",
      "b","e",".","c","o","m","/","e","m","b","e","d","/","d","Q","w","4",
      "w","9","W","g","X","c","Q","?","v","=","9","b","Z","k","p","7","q",
      "1","9","f","0">>,
    <<"h","t","t","p","s",":","/","/","w","w","w",".","y","o","u","t","u",
      "b","e",".","c","o","m","/","w","a","t","c","h","?","t","=","1","&",
      "u","=","y","o","u","t","u","b","e",".","c","o","m","/","v","/","9",
      "b","Z","k","p","7","q","1","9","f","0">>,
    <<"h","t","t","p","s",":","/","/","w","w","w",".","y","o","u","t","u",
      "b","e",".","c","o","m","/","w","a","t","c","h","?","f","e","a","t",
      "u","r","e","=","s","h","a","r","e","&","v","=","d","Q","w","4","w",
      "9","W","g","X","c","Q">>,
    <<"h","t","t","p","s",":","/","/","[","y","o","u","t","u",".","b","e",
      "/","9","b","Z","k","p","7","q","1","9","f","0">>,
    <<"h","t","t","p","s",":","/","/","[","w","w","w",".","y","o","u","t",
      "u","b","e",".","c","o","m","/","w","a","t","c","h","?","v","=","d",
      "Q","w","4","w","9","W","g","X","c","Q">>,
    <<"d","Q","w","4","w","9","W","g","X","c","Q","\n">>,
    <<"n","o","t"," ","a"," ","v","i","d","e","o">> }

UrlArgs ==
    {Arg(UrlText(s, sh, id, ex), sh, id, ex) :
        s \in Schemes, sh \in Shapes, id \in IdPool, ex \in Extras}
    \cup {Arg(u, "mixed", <<>>, "none") : u \in MixedUrls}

\* video titles given to sanitize_filename
TitleArgs ==
    {
    <<"A","/","B",":","C","*","D"," ","\"","T","i","t","l","e","\"">>,
    <<>>,
    <<"?","?","?">>,
    <<" ","."," ",".">>,
    <<" "," ","H","e","l","l","o"," ","\t","\n"," ","w","o","r","l","d",".",
      " "," ">>,
    <<".","h","i","d","d","e","n"," ","f","i","l","e",".">>,
    <<"x","x","x","x","x","x","x","x","x","x","x","x","x","x","x","x","x",
      "x","x","x","x","x","x","x","x","x","x","x","x","x","x","x","x","x",
      "x","x","x","x","x","x","x","x","x","x","x","x","x","x","x","x","x",
      "x","x","x","x","x","x","x","x","x","x","x","x","x","x","x","x","x",
      "x","x","x","x","x","x","x","x","x","x","x","x","x","x","x","x","x",
      "x","x","x","x","x","x","x","x","x","x","x","x","x","x","x","x","x",
      "x","x","x","x","x","x","x","x","x","x","x","x","x","x","x","x","x",
      "x">>,
    <<"T","h","e"," ","q","u","i","c","k"," ","b","r","o","w","n"," ","f",
      "o","x"," ","j","u","m","p","s"," ","o","v","e","r"," ","t","h","e",
      " ","l","a","z","y"," ","d","o","g"," ","a","n","d"," ","k","e","e",
      "p","s"," ","r","u","n","n","i","n","g"," ","t","h","r","o","u","g",
      "h"," ","t","h","e"," ","f","o","r","e","s","t"," ","u","n","t","i",
      "l"," ","i","t"," ","r","e","a","c","h","e","s"," ","t","h","e"," ",
      "r","i","v","e","r"," ","b","a","n","k">>,
    <<"a","a","a","a","a","a","a","a","a","a","a","a","a","a","a","a","a",
      "a","a","a","a","a","a","a","a","a","a","a","a","a","a","a","a","a",
      "a","a","a","a","a","a","a","a","a","a","a","a","a","a","a","a","a",
      "a","a","a","a","a","a","a","a","a","a","a","a","a","a","a","a","a",
      "a","a","a","a","a","a","a","a","a","a","a","a","a","a","a","a","a",
      "a","a","a","a","a","a","a","a","a","a","a","a","a","."," ","b","b",
      "b","b">>,
    <<"a","a","a","a","a","a","a","a","a","a","a","a","a","a","a","a","a",
      "a","a","a","a","a","a","a","a","a","a","a","a","a","a","a","a","a",
      "a","a","a","a","a","a","a","a","a","a","a","a","a","a","a","a","a",
      "a","a","a","a","a","a","a","a","a","a","a","a","a","a","a","a","a",
      "a","a","a","a","a","a","a","a","a","a","a","a","a","a","a","a","a",
      "a","a","a","a","a","a","a","a","a","a","a","a","a","a"," ","b","b",
      "b","b">>,
    <<"a","a","a","a","a","a","a","a","a","a","a","a","a","a","a","a","a",
      "a","a","a","a","a","a","a","a","a","a","a","a","a","a","a","a","a",
      "a","a","a","a","a","a","a","a","a","a","a","a","a","a","a","a","a",
      "a","a","a","a","a","a","a","a","a","a","a","a","a","a","a","a","a",
      "a","a","a","a","a","a","a","a","a","a","a","a","a","a","a","a","a",
      "a","a","a","a","a","a","a","a","a","a","a","a"," ","."," ","b","b",
      "b","b">>,
    <<"W","h","a","t"," ","i","s"," ","t","h","i","s","?"," ","<","P","a",
      "r","t"," ","2",">"," ","|"," ","5","0","%"," ","*"," ","2">> }

Pending == [kind |-> "pending", value |-> <<>>]

InitNormalize ==
    /\ urls = <<>>
    /\ delay = 0
    /\ max_retries = 0
    /\ skip_existing = FALSE
    /\ use_playwright_fallback = FALSE
    /\ playwright_available = FALSE
    /\ pc = "idle"
    /\ idx = 0
    /\ attempt = 0
    /\ output_file = <<>>
    /\ results = <<>>
    /\ files = <<>>
    /\ vstate = <<>>
    /\ fetches = 0
    /\ sleeps = <<>>
    /\ call = NoCall
    /\ pw_pc = "idle"
    /\ pw_url = <<>>
    /\ pw_driver = FALSE
    /\ pw_browser = "none"
    /\ pw_selector = 0
    /\ pw_tried = <<>>
    /\ pw_clicks = <<>>
    /\ pw_page = <<>>
    /\ pw_segments = <<>>
    /\ pw_error = <<>>
    /\ pw_timestamps = FALSE
    /\ pw_lines = <<>>
    /\ MainIdle
    /\ OthersIdle
    /\ FetchIdle
    /\ \/ fn = "extract_video_id" /\ fn_arg \in UrlArgs
       \/ fn = "sanitize_filename"
            /\ fn_arg \in {Arg(t, "title", <<>>, "none") : t \in TitleArgs}
    /\ fn_ret = Pending

CallExtractVideoId ==
    /\ fn = "extract_video_id"
    /\ fn_ret = Pending
    /\ fn_ret' = extract_video_id(fn_arg.text)
    /\ UNCHANGED <<nonFnVars, fn, fn_arg>>

CallSanitizeFilename ==
    /\ fn = "sanitize_filename"
    /\ fn_ret = Pending
    /\ fn_ret' = Value(sanitize_filename(fn_arg.text))
    /\ UNCHANGED <<nonFnVars, fn, fn_arg>>

NextNormalize ==
    \/ CallExtractVideoId
    \/ CallSanitizeFilename

SpecNormalize == InitNormalize /\ [][NextNormalize]_vars

-----------------------------------------------------------------------------
\* format_timestamp on its own

\* batch_fetch is not running
BatchIdle ==
    /\ urls = <<>>
    /\ delay = 0
    /\ max_retries = 0
    /\ skip_existing = FALSE
    /\ use_playwright_fallback = FALSE
    /\ playwright_available = FALSE
    /\ pc = "idle"
    /\ idx = 0
    /\ attempt = 0
    /\ output_file = <<>>
    /\ results = <<>>
    /\ files = <<>>
    /\ vstate = <<>>
    /\ fetches = 0
    /\ sleeps = <<>>
    /\ call = NoCall

\* fetch_transcript_playwright is not running
PwIdle ==
    /\ pw_pc = "idle"
    /\ pw_url = <<>>
    /\ pw_driver = FALSE
    /\ pw_browser = "none"
    /\ pw_selector = 0
    /\ pw_tried = <<>>
    /\ pw_clicks = <<>>
    /\ pw_page = <<>>
    /\ pw_segments = <<>>
    /\ pw_error = <<>>
    /\ pw_timestamps = FALSE
    /\ pw_lines = <<>>

MaxHours == 2

\* hours, minutes and seconds the start of a snippet is made of, and its
\* fraction in tenths of a second
HourPool == 0..MaxHours \cup {10, 100}

MinutePool == {0, 1, 9, 10, 59}

SecondPool == {0, 1, 5, 9, 10, 59}

TenthPool == {0, 9}

TimeArgs ==
    { ((h * 3600 + mi * 60 + s) * Seconds) + t :
        h \in HourPool, mi \in MinutePool, s \in SecondPool, t \in TenthPool }

InitTimestamp ==
    /\ BatchIdle
    /\ PwIdle
    /\ MainIdle
    /\ OthersIdle
    /\ FetchIdle
    /\ fn = "format_timestamp"
    /\ fn_arg \in TimeArgs
    /\ fn_ret = Pending

CallFormatTimestamp ==
    /\ fn = "format_timestamp"
    /\ fn_ret = Pending
    /\ fn_ret' = Value(format_timestamp(fn_arg))
    /\ UNCHANGED <<nonFnVars, fn, fn_arg>>

NextTimestamp == CallFormatTimestamp

SpecTimestamp == InitTimestamp /\ [][NextTimestamp]_vars
-----------------------------------------------------------------------------
\* save_transcript step by step, as main calls it for a single video with -o:
\* fetch_transcript, then fetch_transcript_playwright, then the output file

SaveUrls == {UrlWatch, UrlInvalid, UrlBadHost}

InitSave ==
    /\ urls = <<>>
    /\ delay = 0
    /\ max_retries = 0
    /\ skip_existing = FALSE
    /\ use_playwright_fallback \in BOOLEAN
    /\ playwright_available \in BOOLEAN
    /\ pc = "idle"
    /\ idx = 0
    /\ attempt = 0
    /\ output_file = <<>>
    /\ results = <<>>
    /\ files = <<>>
    /\ vstate = <<>>
    /\ fetches = 0
    /\ sleeps = <<>>
    /\ call = NoCall
    /\ PwIdle
    /\ FnIdle
    /\ OthersIdle
    /\ FetchIdle
    /\ m_pc = "start"
    /\ m_url \in SaveUrls
    /\ m_output = TRUE
    /\ m_no_formatting = FALSE
    /\ m_exit = -1
    /\ m_stderr = <<>>
    /\ m_printed = "nothing"

\* markdown = fetch_transcript(url, include_timestamps, language)
SaveCallsApi ==
    /\ m_pc = "start"
    /\ m_output
    /\ ft_pc' = "start"
    /\ ft_url' = m_url
    /\ ft_language' = StrEn
    /\ ft_timestamps' \in BOOLEAN
    /\ ft_formatting' = TRUE
    /\ ft_snippets' \in SampleTranscripts
    /\ fetches' = fetches + 1
    /\ output_file' = StrOutputPath
    /\ m_pc' = "api"
    /\ UNCHANGED <<Params, pc, idx, attempt, results, files, vstate, sleeps, call,
                   pwVars, fnVars, otherVars, ft_attempts, ft_track, ft_i,
                   ft_paragraph, ft_last_end, ft_lines, ft_breaks, ft_ret,
                   m_url, m_output, m_no_formatting, m_exit, m_stderr, m_printed>>

\* the end of a save_transcript call with result r: the file is written when a
\* fetcher returned the markdown (n characters); main prints the outcome
SaveEnds(r, n) ==
    /\ call' = r
    /\ files' = FilesAfterSave(files, output_file, r, n)
    /\ MainExits(r.ok, r.error, "saved")
    /\ UNCHANGED <<Params, pc, idx, attempt, output_file, results, vstate, fetches,
                   sleeps, pwVars, fnVars, ftVars, otherVars>>

\* fetch_transcript returned
SaveApiReturned ==
    /\ m_pc = "api"
    /\ ft_pc = "returned"
    /\ SaveEnds(save_transcript(Ok, Ok, use_playwright_fallback, playwright_available),
                Len(ft_ret))

\* fetch_transcript raised and there is no fallback: raise Exception(api_error)
SaveApiFailed ==
    /\ m_pc = "api"
    /\ ft_pc = "raised"
    /\ ~FallbackEnabled(use_playwright_fallback, playwright_available)
    /\ SaveEnds(save_transcript(Err(ft_ret), Ok, use_playwright_fallback,
                                playwright_available), 0)

\* fetch_transcript raised: markdown = fetch_transcript_playwright(url,
\* include_timestamps), on the page YouTube serves
SaveCallsPlaywright ==
    /\ m_pc = "api"
    /\ ft_pc = "raised"
    /\ FallbackEnabled(use_playwright_fallback, playwright_available)
    /\ pw_pc' = "start"
    /\ pw_url' = m_url
    /\ pw_timestamps' = ft_timestamps
    /\ pw_page' \in PageSamples
    /\ m_pc' = "fallback"
    /\ UNCHANGED <<batchVars, fnVars, ftVars, otherVars, pw_driver, pw_browser,
                   pw_selector, pw_tried, pw_clicks, pw_segments, pw_error, pw_lines,
                   m_url, m_output, m_no_formatting, m_exit, m_stderr, m_printed>>

\* fetch_transcript_playwright returned
SaveFallbackReturned ==
    /\ m_pc = "fallback"
    /\ pw_pc = "returned"
    /\ SaveEnds(save_transcript(Err(ft_ret), Ok, use_playwright_fallback,
                                playwright_available),
                Len(JoinWith(pw_lines, <<"\n">>)))

\* fetch_transcript_playwright raised too
SaveBothFailed ==
    /\ m_pc = "fallback"
    /\ pw_pc = "raised"
    /\ SaveEnds(save_transcript(Err(ft_ret), Err(pw_error), use_playwright_fallback,
                                playwright_available), 0)

NextSave ==
    \/ SaveCallsApi
    \/ FtInvalidUrl
    \/ FtList
    \/ FtListFails
    \/ FtFound
    \/ FtNotFound
    \/ FtFetch
    \/ FtFetchFails
    \/ FtStampedSnippet
    \/ FtParagraphSnippet
    \/ FtReturn
    \/ SaveApiReturned
    \/ SaveApiFailed
    \/ SaveCallsPlaywright
    \/ PwInvalidUrl
    \/ PwEnter
    \/ PwLaunch
    \/ PwLaunchFails
    \/ PwGoto
    \/ PwGotoFails
    \/ PwTrySelector
    \/ PwNoButton
    \/ PwExtract
    \/ PwExtractFails
    \/ PwClose
    \/ PwNoSegments
    \/ PwReturn
    \/ SaveFallbackReturned
    \/ SaveBothFailed

\* save_transcript on one video, and batch_fetch on batches of one video
InitInvalid == InitSave \/ InitRetry

NextInvalid == NextSave \/ Next

SpecInvalid == InitInvalid /\ [][NextInvalid]_vars
-----------------------------------------------------------------------------
\* main on a single video whose transcript the provider returns: how
\* --no-formatting reaches the formatter of fetch_transcript

\* main parses the arguments; --timestamps and --language are not given
InitFormatting ==
    /\ BatchIdle
    /\ PwIdle
    /\ FnIdle
    /\ OthersIdle
    /\ FetchIdle
    /\ m_pc = "start"
    /\ m_url = UrlWatch
    /\ m_output \in BOOLEAN
    /\ m_no_formatting \in BOOLEAN
    /\ m_exit = -1
    /\ m_stderr = <<>>
    /\ m_printed = "nothing"

\* the transcripts the provider returns here: up to two snippets, enough for
\* a body of two paragraphs
FormattingTranscripts == SnippetLists(2)

\* fetch_transcript(url, include_timestamps, language, preserve_formatting)
\* up to the formatter: the provider returns the snippets of the English track
FtFetched(url, include_timestamps, preserve_formatting) ==
    /\ ft_pc' = "format"
    /\ ft_url' = url
    /\ ft_language' = StrEn
    /\ ft_timestamps' = include_timestamps
    /\ ft_formatting' = preserve_formatting
    /\ ft_attempts' = <<[kind |-> "requested", ok |-> TRUE]>>
    /\ ft_track' = Track(StrEn, FALSE)
    /\ ft_snippets' \in FormattingTranscripts
    /\ ft_i' = 0
    /\ ft_paragraph' = <<>>
    /\ ft_last_end' = 0
    /\ ft_lines' = Header(VideoIdOf[url].value, Track(StrEn, FALSE))
    /\ UNCHANGED <<ft_breaks, ft_ret>>

\* mutant of PreserveFormattingOfSave: save_transcript hands the flag on
PreserveFormattingOfSaveFromFlag(no_formatting) == ~no_formatting

\* save_transcript has no preserve_formatting parameter and calls
\* fetch_transcript(url, include_timestamps, language): the default holds
PreserveFormattingOfSave(no_formatting) == TRUE

\* main, -o given: save_transcript calls fetch_transcript
MainSaveFetch ==
    /\ m_pc = "start"
    /\ m_output
    /\ FtFetched(m_url, FALSE, PreserveFormattingOfSave(m_no_formatting))
    /\ m_pc' = "save"
    /\ UNCHANGED <<batchVars, pwVars, fnVars, otherVars, m_url, m_output,
                   m_no_formatting, m_exit, m_stderr, m_printed>>

\* main, no -o: fetch_transcript(..., preserve_formatting=not args.no_formatting)
MainStdoutFetch ==
    /\ m_pc = "start"
    /\ ~m_output
    /\ FtFetched(m_url, FALSE, ~m_no_formatting)
    /\ m_pc' = "stdout"
    /\ UNCHANGED <<batchVars, pwVars, fnVars, otherVars, m_url, m_output,
                   m_no_formatting, m_exit, m_stderr, m_printed>>

\* save_transcript writes the markdown to the output file; main reports it
MainSaveWrites ==
    /\ m_pc = "save"
    /\ ft_pc = "returned"
    /\ files' = Put(files, StrOutputPath, File(Len(ft_ret)))
    /\ output_file' = StrOutputPath
    /\ MainExits(TRUE, <<>>, "saved")
    /\ UNCHANGED <<Params, pc, idx, attempt, results, vstate, fetches, sleeps,
                   call, pwVars, fnVars, ftVars, otherVars>>

\* main prints the markdown
MainStdoutPrints ==
    /\ m_pc = "stdout"
    /\ ft_pc = "returned"
    /\ MainExits(TRUE, <<>>, "markdown")
    /\ UNCHANGED <<batchVars, pwVars, fnVars, ftVars, otherVars>>

NextFormatting ==
    \/ MainSaveFetch
    \/ MainStdoutFetch
    \/ FtParagraphSnippet
    \/ FtReturn
    \/ MainSaveWrites
    \/ MainStdoutPrints

SpecFormatting == InitFormatting /\ [][NextFormatting]_vars
-----------------------------------------------------------------------------
\* the paragraph loops of the two formatters, side by side

\* the texts of the segments the extraction script returns: trimmed, and
\* possibly empty
SegmentTexts == {Strip(t, Whitespace) : t \in SnippetTexts} \cup {<<>>}

StrSegmentTime ==
    <<"0",":","0","1">>

Segment(text) == [time |-> StrSegmentTime, text |-> text]

SegmentLists == UNION {[1..k -> {Segment(t) : t \in SegmentTexts}] : k \in 0..MaxSnippets}

\* the elements of the page the segments were taken from
ElementsOf(segments) ==
    [k \in 1..Len(segments) |->
        [has_text |-> TRUE, time |-> segments[k].time, text |-> segments[k].text]]

\* the state of fetch_transcript_playwright when the markdown is to be built
\* in paragraph mode: the browser is closed
InitPwFormat ==
    /\ BatchIdle
    /\ FnIdle
    /\ MainIdle
    /\ FetchIdle
    /\ OthersIdle
    /\ pw_pc = "format"
    /\ pw_url = UrlWatch
    /\ pw_driver = TRUE
    /\ pw_browser = "closed"
    /\ pw_selector = 1
    /\ pw_tried = <<"visible">>
    /\ pw_clicks = <<1>>
    /\ pw_segments \in SegmentLists
    /\ pw_page = <<ElementsOf(pw_segments), <<>>, <<>>>>
    /\ pw_error = <<>>
    /\ pw_timestamps = FALSE
    /\ pw_lines = <<>>

InitGrouping == InitParagraphs \/ InitPwFormat

NextGrouping ==
    \/ FtParagraphSnippet
    \/ FtReturn
    \/ PwNoSegments
    \/ PwReturn

SpecGrouping == InitGrouping /\ [][NextGrouping]_vars
-----------------------------------------------------------------------------
\* extract_pages_with_gemini.py: main, run again and again on one directory

MaxPages == 3

MaxRuns == 2

\* failed_pages, cut to its first MaxPages entries
failed_pages == [k \in 1..MaxPages |-> k]

\* the markdown file of a page: whether it exists, the run that wrote it (0:
\* it was there before the first run) and whether it was written to the end
NoPageFile == [exists |-> FALSE, by |-> 0, whole |-> FALSE]

PageFile(run, whole) == [exists |-> TRUE, by |-> run, whole |-> whole]

\* what main did with a page in a run: whether output_path existed, whether
\* generate_content was called, and how the page ended
NotReached == [found |-> FALSE, called |-> FALSE, outcome |-> "none"]

Did(found, called, outcome) == [found |-> found, called |-> called, outcome |-> outcome]

\* how extract_markdown_from_image can end: no GEMINI_API_KEY, Image.open
\* raises, generate_content raises, the text is returned
ExtractOutcomes == {"no_key", "bad_image", "api_error", "ok"}

\* whether the outcome went through generate_content
CallsApi(outcome) == outcome \in {"api_error", "ok"}

\* how output_path.write_text can end: the text is written; it raises before
\* the file is created; it raises after the file was created
WriteOutcomes == {"written", "not_created", "partial"}

\* mutant of SkipsPage: the test of output_path.exists() left out
SkipsPageNever(file) == FALSE

\* "if output_path.exists(): continue"
SkipsPage(file) == file.exists

InitPages ==
    /\ BatchIdle
    /\ PwIdle
    /\ FnIdle
    /\ MainIdle
    /\ FetchIdle
    /\ x_pc = "page"
    /\ x_run = 1
    /\ x_i = 1
    /\ x_files \in [1..MaxPages -> {NoPageFile, PageFile(0, TRUE)}]
    /\ x_log = <<[p \in 1..MaxPages |-> NotReached]>>
    /\ g_pc = "idle"
    /\ g_inputs = <<>>
    /\ g_i = 0
    /\ g_response = "none"
    /\ g_requests = 0
    /\ g_cause = "none"
    /\ g_raised = "none"

\* the page of this round of the loop
Page == failed_pages[x_i]

Logged(d) == x_log' = [x_log EXCEPT ![x_run][Page] = d]

InLoop == x_pc = "page" /\ x_i <= Len(failed_pages)

\* "Page N already exists, skipping..."
XSkip ==
    /\ InLoop
    /\ SkipsPage(x_files[Page])
    /\ Logged(Did(x_files[Page].exists, FALSE, "skipped"))
    /\ x_i' = x_i + 1
    /\ UNCHANGED <<ytVars, gVars, x_pc, x_run, x_files>>

\* extract_markdown_from_image raises: "Error: ...", on to the next page
XExtractFails ==
    /\ InLoop
    /\ ~SkipsPage(x_files[Page])
    /\ \E o \in ExtractOutcomes \ {"ok"} :
          Logged(Did(x_files[Page].exists, CallsApi(o), "failed"))
    /\ x_i' = x_i + 1
    /\ UNCHANGED <<ytVars, gVars, x_pc, x_run, x_files>>

\* the text came back and write_text is called
XSave ==
    /\ InLoop
    /\ ~SkipsPage(x_files[Page])
    /\ \E w \in WriteOutcomes :
          /\ x_files' =
                IF w = "not_created" THEN x_files
                ELSE [x_files EXCEPT ![Page] = PageFile(x_run, w = "written")]
          /\ Logged(Did(x_files[Page].exists, CallsApi("ok"),
                        IF w = "written" THEN "saved"
                        ELSE IF w = "partial" THEN "failed_partial" ELSE "failed"))
    /\ x_i' = x_i + 1
    /\ UNCHANGED <<ytVars, gVars, x_pc, x_run>>

\* "Extraction complete!"
XEndRun ==
    /\ x_pc = "page"
    /\ x_i > Len(failed_pages)
    /\ x_pc' = "done"
    /\ UNCHANGED <<ytVars, gVars, x_run, x_i, x_files, x_log>>

\* the script is started again on the same directories
XRerun ==
    /\ x_pc = "done"
    /\ x_run < MaxRuns
    /\ x_run' = x_run + 1
    /\ x_i' = 1
    /\ x_pc' = "page"
    /\ x_log' = Append(x_log, [p \in 1..MaxPages |-> NotReached])
    /\ UNCHANGED <<ytVars, gVars, x_files>>

NextPages ==
    \/ XSkip
    \/ XExtractFails
    \/ XSave
    \/ XEndRun
    \/ XRerun

SpecPages == InitPages /\ [][NextPages]_vars
-----------------------------------------------------------------------------
\* gemini_image_generator.py: GeminiImageGenerator.generate_image

MaxInputs == 2

\* what an entry of input_images can be: a path to no file, a path to an
\* image file, a path to a file PIL cannot read, a PIL image, something else
InputKinds == {"missing_path", "image_path", "broken_path", "pil_image", "other"}

\* what the response of generate_content can hold: parts without inline
\* data, an image, inline data PIL cannot read, no candidate at all
ResponseKinds == {"no_image", "image", "bad_image", "no_candidates"}

\* how _prepare_contents deals with one entry of input_images
PrepareRaises(kind) ==
    IF kind = "missing_path" THEN "FileNotFoundError"
    ELSE IF kind = "broken_path" THEN "UnidentifiedImageError"
    ELSE IF kind = "other" THEN "ValueError"
    ELSE "none"

\* how _process_response ends on a response
ProcessRaises(response) ==
    IF response = "no_image" THEN "ValueError"
    ELSE IF response = "bad_image" THEN "UnidentifiedImageError"
    ELSE IF response = "no_candidates" THEN "IndexError"
    ELSE "none"

\* the except clause of generate_image: whatever was raised inside the try
\* block leaves the method as a RuntimeError
RaisedFromTry(e) == "RuntimeError"

InitGenerate ==
    /\ BatchIdle
    /\ PwIdle
    /\ FnIdle
    /\ MainIdle
    /\ FetchIdle
    /\ x_pc = "idle"
    /\ x_run = 0
    /\ x_i = 0
    /\ x_files = <<>>
    /\ x_log = <<>>
    /\ g_pc = "prepare"
    /\ g_inputs \in UNION {[1..k -> InputKinds] : k \in 0..MaxInputs}
    /\ g_i = 0
    /\ g_response = "none"
    /\ g_requests = 0
    /\ g_cause = "none"
    /\ g_raised = "none"

\* _prepare_contents takes one entry of input_images
GPrepareImage ==
    /\ g_pc = "prepare"
    /\ g_i < Len(g_inputs)
    /\ PrepareRaises(g_inputs[g_i + 1]) = "none"
    /\ g_i' = g_i + 1
    /\ UNCHANGED <<ytVars, xVars, g_pc, g_inputs, g_response, g_requests, g_cause, g_raised>>

\* _prepare_contents raises: the call is outside the try block
GPrepareFails ==
    /\ g_pc = "prepare"
    /\ g_i < Len(g_inputs)
    /\ PrepareRaises(g_inputs[g_i + 1]) # "none"
    /\ g_raised' = PrepareRaises(g_inputs[g_i + 1])
    /\ g_pc' = "raised"
    /\ UNCHANGED <<ytVars, xVars, g_inputs, g_i, g_response, g_requests, g_cause>>

\* contents and config are ready
GPrepared ==
    /\ g_pc = "prepare"
    /\ g_i = Len(g_inputs)
    /\ g_pc' = "request"
    /\ UNCHANGED <<ytVars, xVars, g_inputs, g_i, g_response, g_requests, g_cause, g_raised>>

\* an exception inside the try block
GTryFails(e) ==
    /\ g_cause' = e
    /\ g_raised' = RaisedFromTry(e)
    /\ g_pc' = "raised"

\* client.models.generate_content returns a response
GRequest ==
    /\ g_pc = "request"
    /\ g_requests' = g_requests + 1
    /\ \E r \in ResponseKinds : g_response' = r
    /\ g_pc' = "process"
    /\ UNCHANGED <<ytVars, xVars, g_inputs, g_i, g_cause, g_raised>>

\* client.models.generate_content raises
GRequestFails ==
    /\ g_pc = "request"
    /\ g_requests' = g_requests + 1
    /\ GTryFails("APIError")
    /\ UNCHANGED <<ytVars, xVars, g_inputs, g_i, g_response>>

\* _process_response raises
GProcessFails ==
    /\ g_pc = "process"
    /\ ProcessRaises(g_response) # "none"
    /\ GTryFails(ProcessRaises(g_response))
    /\ UNCHANGED <<ytVars, xVars, g_inputs, g_i, g_response, g_requests>>

\* image.save raises
GSaveFails ==
    /\ g_pc = "process"
    /\ ProcessRaises(g_response) = "none"
    /\ GTryFails("OSError")
    /\ UNCHANGED <<ytVars, xVars, g_inputs, g_i, g_response, g_requests>>

\* return result
GReturn ==
    /\ g_pc = "process"
    /\ ProcessRaises(g_response) = "none"
    /\ g_pc' = "returned"
    /\ UNCHANGED <<ytVars, xVars, g_inputs, g_i, g_response, g_requests, g_cause, g_raised>>

NextGenerate ==
    \/ GPrepareImage
    \/ GPrepareFails
    \/ GPrepared
    \/ GRequest
    \/ GRequestFails
    \/ GProcessFails
    \/ GSaveFails
    \/ GReturn

SpecGenerate == InitGenerate /\ [][NextGenerate]_vars
----------------------------------------------------------------------------
\* Properties of batch_fetch, save_transcript and fetch_transcript_playwright.

\* a message that contains 'blocking' or 'blocked', whatever the case
MentionsRateLimit(msg) == \E w \in {StrBlocking, StrBlocked} : Contains(Lower(msg), w)

\* the messages save_transcript can raise that do so, computed once
RateLimitMessages ==
    {r.error : r \in {x \in UNION {SaveResults[fb, av] : fb \in BOOLEAN, av \in BOOLEAN} :
                        ~x.ok /\ MentionsRateLimit(x.error)}}

\* a save_transcript call has been made for the current video, and it raised
CallFailed == call.source # "nocall" /\ ~call.ok

\* C1: in batch_fetch a failed attempt on a video is followed by another
\* attempt on it only if the failure message contains 'blocking' or 'blocked'
\* (case-insensitive); a failure with any other message ends the video at
\* once, with outcome None and no further attempt.
C1_RetryOnlyOnRateLimit ==
    /\ (pc = "attempt" /\ attempt > 0) => (CallFailed /\ call.error \in RateLimitMessages)
    /\ pc = "backoff" => (CallFailed /\ call.error \in RateLimitMessages)
    /\ (CallFailed /\ call.error \notin RateLimitMessages) =>
            /\ pc \notin {"attempt", "backoff"}
            /\ vstate[idx] = "Failed"
            /\ results[urls[idx]] = None

\* a second attempt was made after a rate-limit failure, and its failure with
\* another message has ended the video
C1_Witness ==
    /\ attempt = 1
    /\ CallFailed
    /\ call.error \notin RateLimitMessages
    /\ pc = "loop"
    /\ results[urls[idx]] = None

Backoffs == SelectSeq(sleeps, LAMBDA s : s.kind = "backoff")

\* C2: after the rate-limited failure of attempt k (0-indexed) the wait before
\* the next try is delay * 2^k (1, 2, 4 seconds for attempts 0, 1, 2 with
\* delay 1), and once max_retries attempts have all failed with a rate-limit
\* error the video is marked Failed (None in the result mapping).
C2_ExponentialBackoff ==
    /\ \A i \in 1..Len(Backoffs) :
            /\ Backoffs[i].attempt = i - 1
            /\ Backoffs[i].secs = delay * (2 ^ (i - 1))
            /\ delay = 1 => Backoffs[i].secs = <<1, 2, 4, 8, 16, 32>>[i]
    /\ pc = "backoff" =>
            /\ Len(Backoffs) = attempt + 1
            /\ sleeps[Len(sleeps)].kind = "backoff"
    /\ (pc \in {"loop", "returned"} /\ max_retries > 0 /\ Len(Backoffs) = max_retries) =>
            /\ vstate[idx] = "Failed"
            /\ results[urls[idx]] = None

\* with delay 1 and max_retries 3 the three attempts were rate limited: the
\* waits were 1, 2 and 4 seconds and the video is marked None
C2_Witness ==
    /\ delay = 1
    /\ max_retries = 3
    /\ pc = "loop"
    /\ [i \in 1..Len(sleeps) |-> sleeps[i].secs] = <<1, 2, 4>>
    /\ \A i \in 1..Len(sleeps) : sleeps[i].kind = "backoff"
    /\ results[urls[idx]] = None

\* the videos of the list that no later position of the list repeats
LastOccurrence(i) == \A j \in (i + 1)..Len(urls) : urls[j] # urls[i]

\* C3: when batch_fetch returns, the result mapping has an entry for every URL
\* of the input list, for every value of the parameters (including
\* max_retries = 0): the output path if the video was saved or skipped, None
\* otherwise.
C3_EveryUrlHasEntry ==
    pc = "returned" =>
        \A i \in 1..Len(urls) :
            /\ urls[i] \in DOMAIN results
            /\ LastOccurrence(i) =>
                    (results[urls[i]] # None <=> vstate[i] \in {"Success", "Skip"})

\* batch_fetch has just decided whether to skip the current video
JustDecided ==
    /\ idx > 0
    /\ pc # "raised"
    /\ Truthy(VideoIdOf[urls[idx]])
    /\ call.source = "nocall"

\* the file batch_fetch found at the output path of the current video is
\* longer than 100 bytes
FoundWithContent ==
    /\ output_file \in DOMAIN files
    /\ files[output_file].exists
    /\ files[output_file].size > 100

\* C4: a video is skipped (no fetch attempted, its existing path recorded as
\* the outcome) exactly when skip_existing is set and its output file already
\* exists with a size strictly greater than 100 bytes; an existing file of 100
\* bytes or fewer is fetched again.
C4_SkipExactlyWithContent ==
    /\ JustDecided =>
            /\ vstate[idx] = "Skip" <=> (skip_existing /\ FoundWithContent)
            /\ (vstate[idx] # "Skip" /\ max_retries > 0) => (pc = "attempt" /\ attempt = 0)
    /\ (idx > 0 /\ vstate[idx] = "Skip") =>
            /\ call.source = "nocall"
            /\ pc \in {"loop", "returned"}
            /\ results[urls[idx]] = output_file

\* the first video was skipped, and the second, whose output file exists with
\* exactly 100 bytes, is about to be fetched
C4_Witness ==
    /\ idx = 2
    /\ vstate[1] = "Skip"
    /\ pc = "attempt"
    /\ skip_existing
    /\ output_file \in DOMAIN files
    /\ files[output_file] = File(100)

Pacings == SelectSeq(sleeps, LAMBDA s : s.kind = "pacing")

\* C5: the pacing sleep of delay seconds happens after every successful save
\* of a video that is not the last of the list, and never after a failed
\* video, a skipped video or the last video.
C5_PacingAfterSave ==
    /\ Len(Pacings) <= 1
    /\ Len(Pacings) = 1 <=> (idx > 0 /\ idx < Len(urls) /\ vstate[idx] = "Success")
    /\ Len(Pacings) = 1 =>
            /\ sleeps[Len(sleeps)].kind = "pacing"
            /\ sleeps[Len(sleeps)].secs = delay

\* the first of two videos was saved at its second attempt: a backoff wait,
\* then the pacing sleep
C5_Witness ==
    /\ idx = 1
    /\ Len(urls) = 2
    /\ vstate[1] = "Success"
    /\ Len(sleeps) = 2
    /\ sleeps[1].kind = "backoff"
    /\ sleeps[2] = [kind |-> "pacing", secs |-> delay, attempt |-> 1]

\* C6: a per-video error in batch_fetch (unparseable URL, failure of both
\* fetchers, exhausted retries) never aborts the batch: the error is recorded
\* as None for that video and every later video of the list is still
\* processed.
C6_ErrorsNeverAbort ==
    /\ pc # "raised"
    /\ (idx > 0 /\ vstate[idx] = "Failed") => results[urls[idx]] = None
    /\ pc = "returned" => idx = Len(urls)

\* C7: in save_transcript the Playwright fetcher is invoked only after the API
\* fetcher has failed in the same call and only if the fallback is enabled; it
\* is never invoked when the API fetcher succeeds, and when it also fails the
\* failure raised combines the primary and the secondary reason.
C7_FallbackOnlyAfterApiFailure ==
    /\ call.fallback_invoked => (call.api_error # <<>> /\ use_playwright_fallback)
    /\ call.source = "API" => (~call.fallback_invoked /\ call.api_error = <<>>)
    /\ (call.fallback_invoked /\ ~call.ok) =>
            /\ call.fallback_error # <<>>
            /\ Contains(call.error, Take(call.api_error, 50))
            /\ Contains(call.error, Take(call.fallback_error, 50))

\* both fetchers failed in one call
C7_Witness ==
    /\ call.fallback_invoked
    /\ ~call.ok
    /\ call.api_error # <<>>
    /\ call.fallback_error # <<>>
    /\ call.error # call.api_error

Count(state) == Cardinality({i \in 1..Len(urls) : vstate[i] = state})

\* C9: for a playlist of n videos of which k already have an output file
\* larger than 100 bytes, and whose remaining fetches succeed at the first
\* try, the batch attempts exactly n - k fetches and the summary reports n/n
\* successes (skipped videos count as successes).
C9_PlaylistSummary ==
    ( /\ pc = "returned"
      /\ skip_existing
      /\ \A i \in 1..Len(urls) : Truthy(VideoIdOf[urls[i]])
      /\ fetches = Count("Success")
      /\ Count("Failed") = 0 )
    => /\ fetches = Len(urls) - Count("Skip")
       /\ SummarySuccessful = Len(urls)
       /\ SummaryTotal = Len(urls)

\* C10: for every finite URL list and every max_retries >= 0, batch_fetch
\* terminates and every video has moved from Pending to exactly one terminal
\* state: Skip, Success or Failed.
C10_EveryVideoTerminal ==
    pc = "returned" => \A i \in 1..Len(urls) : vstate[i] \in {"Skip", "Success", "Failed"}


\* C11: save_transcript writes the output file only after a fetcher has
\* returned the markdown: a call that fails leaves every file as it was
\* (absent stays absent, an existing file keeps its content), and a call that
\* succeeds writes the output file and no other.
C11_FailureLeavesFile ==
    [][ (pc = "attempt" /\ pc' # "attempt") =>
            /\ ~call'.ok => files' = files
            /\ call'.ok =>
                /\ output_file \in DOMAIN files'
                /\ files'[output_file].exists
                /\ \A p \in DOMAIN files : p # output_file => files'[p] = files[p]
      ]_vars

\* a file of 50 bytes was found at the output path, the video was fetched again
\* and both fetchers failed: the file still has its 50 bytes
C11_Witness ==
    /\ pc = "loop"
    /\ idx > 0
    /\ vstate[idx] = "Failed"
    /\ ~call.ok
    /\ call.fallback_invoked
    /\ output_file \in DOMAIN files
    /\ files[output_file] = File(50)

Returned(name) == fn = name /\ fn_ret # Pending

WellFormedId(s) == Len(s) = IdLength /\ \A i \in 1..Len(s) : s[i] \in IdChars

\* C15: for every input, extract_video_id returns either no result or a
\* well-formed video ID: exactly 11 characters of [A-Za-z0-9_-]; malformed
\* input never yields a partial or garbage ID.
C15_IdWellFormedOrNone ==
    Returned("extract_video_id") =>
        \/ fn_ret = NoValue
        \/ fn_ret.kind = "value" /\ WellFormedId(fn_ret.value)

\* the five input shapes of one video ID
FiveShapes == {"watch", "short", "embed", "v", "bare"}

SameVideoInput ==
    /\ Returned("extract_video_id")
    /\ fn_arg.shape \in FiveShapes
    /\ WellFormedId(fn_arg.id)
    /\ fn_arg.shape = "bare" => fn_arg.extra = "none"

\* C16: for one video ID, extract_video_id returns that ID for each of the
\* five input shapes (watch?v=ID, youtu.be/ID, /embed/ID, /v/ID, the bare ID),
\* also with an extra query parameter or a trailing slash.
C16_SameIdForAllShapes ==
    SameVideoInput => fn_ret = Value(fn_arg.id)

\* the four checks as the claim lists them, p being the parsed URL: whether
\* check k applies to url, and what it yields
CheckApplies(k, url, p) ==
    CASE k = 1 -> Contains(url, StrWatch) /\ (p.error \/ QueryHasV(p.query))
      [] k = 2 -> Contains(url, StrYoutuBe)
      [] k = 3 -> Contains(url, StrEmbed) \/ Contains(url, StrV)
      [] k = 4 -> MatchesBareId(url)

CheckYields(k, url, p) ==
    IF k < 4 /\ p.error THEN Raised
    ELSE CASE k = 1 -> Value(QueryFirstV(p.query))
           [] k = 2 -> Value(LStrip(p.path, {"/"}))
           [] k = 3 -> Value(LastOf(SplitOn(p.path, "/")))
           [] k = 4 -> Value(url)

ChecksApplying(url) == {k \in 1..4 : CheckApplies(k, url, UrlParse(url))}

Earliest(ks) == CHOOSE k \in ks : \A m \in ks : k <= m

\* C17: the four checks are applied in the order query parameter v=,
\* youtu.be/ path, /embed/ or /v/ path, bare ID: the result is that of the
\* earliest check that applies, and no result when none applies.
C17_FirstMatchWins ==
    Returned("extract_video_id") =>
        LET ks == ChecksApplying(fn_arg.text)
        IN  IF ks = {} THEN fn_ret = NoValue
            ELSE fn_ret = CheckYields(Earliest(ks), fn_arg.text, UrlParse(fn_arg.text))

\* a URL that fits the first and the second check gave the ID of its v=
\* parameter, not its path
C17_Witness ==
    /\ Returned("extract_video_id")
    /\ {1, 2} \subseteq ChecksApplying(fn_arg.text)
    /\ fn_ret.kind = "value"
    /\ fn_ret.value # LStrip(UrlParse(fn_arg.text).path, {"/"})

NothingLeft(title) ==
    \A i \in 1..Len(title) :
        title[i] \in InvalidFilenameChars \cup Whitespace \cup {"."}

\* C18: for every title, sanitize_filename returns a non-empty string of at
\* most 100 characters, with none of the characters < > : " / \ | ? *, with
\* no run of whitespace, that neither begins nor ends with a dot or a space
\* (also after a truncation), and "untitled" when nothing else is left.
C18_FilenameClean ==
    Returned("sanitize_filename") =>
        LET name == fn_ret.value
        IN  /\ Len(name) > 0
            /\ Len(name) <= max_length
            /\ \A i \in 1..Len(name) : name[i] \notin InvalidFilenameChars
            /\ \A i \in 1..(Len(name) - 1) :
                    ~(name[i] \in Whitespace /\ name[i + 1] \in Whitespace)
            /\ name[1] \notin {".", " "}
            /\ name[Len(name)] \notin {".", " "}
            /\ NothingLeft(fn_arg.text) => name = StrUntitled

SingleVideo == m_pc = "exited" /\ ~is_playlist_url(m_url)

\* C12: a single-video invocation exits with code 0 when the transcript is
\* produced and with code 1, the error message on the error stream, whenever
\* the fetch fails; in playlist mode the failures of single videos do not make
\* the exit code non-zero.
C12_ExitCodes ==
    /\ SingleVideo =>
        /\ call.ok => (m_exit = 0 /\ m_stderr = <<>>)
        /\ ~call.ok => (m_exit = 1 /\ m_stderr = StrErrorPrefix \o call.error)
    /\ (m_pc = "exited" /\ pc = "returned") => m_exit = 0
    /\ m_pc = "batch" => m_exit = -1

\* a single video written with -o: both fetchers failed, exit code 1 and the
\* combined message on the error stream
C12_Witness ==
    /\ SingleVideo
    /\ m_output
    /\ call.fallback_invoked
    /\ ~call.ok
    /\ m_exit = 1
    /\ Len(m_stderr) > Len(StrErrorPrefix)

PrimaryFailed == call.source # "nocall" /\ call.api_error # <<>>

FallbackIsEnabled == use_playwright_fallback /\ playwright_available

StdoutPath == m_pc = "exited" /\ ~is_playlist_url(m_url) /\ ~m_output

ParagraphMode == ft_pc \in {"format", "returned"} /\ ~ft_timestamps /\ ft_formatting

SnippetText(i) == Strip(ft_snippets[i].text, Whitespace)

\* end of the segment before segment i (0 before the first)
PrevEnd(i) == IF i = 1 THEN 0 ELSE ft_snippets[i - 1].start + ft_snippets[i - 1].duration

\* first segment of the buffer that segment i is added to
BufferStart(i) ==
    LET before == {b \in ft_breaks : b < i}
    IN  IF before = {} THEN 1 ELSE 1 + CHOOSE b \in before : \A c \in before : c <= b

\* length of segments a..b joined with single spaces
RECURSIVE JoinedLength(_, _)
JoinedLength(a, b) ==
    IF a > b THEN 0
    ELSE IF a = b THEN Len(SnippetText(a))
    ELSE Len(SnippetText(a)) + 1 + JoinedLength(a + 1, b)

BreakDue(i) ==
    /\ \/ ft_snippets[i].start - PrevEnd(i) > 2 * Seconds
       \/ (Len(SnippetText(i)) > 0 /\ SnippetText(i)[Len(SnippetText(i))] \in {".", "!", "?"})
    /\ JoinedLength(BufferStart(i), i) > 100

\* the paragraphs written: the lines after the header, without their newline
Paragraphs ==
    [k \in 1..(Len(ft_lines) - HeaderLines) |->
        Take(ft_lines[k + HeaderLines], Len(ft_lines[k + HeaderLines]) - 1)]

\* C14: in paragraph mode a paragraph break follows a segment exactly when
\* (its start minus the end of the segment before exceeds 2.0 seconds, or its
\* text ends in '.', '!' or '?') and the buffer joined with that segment is
\* longer than 100 characters; what is left at the end is flushed whatever its
\* length, so every paragraph but the last is longer than 100 characters.
C14_ParagraphBreaks ==
    ParagraphMode =>
        /\ \A i \in 1..ft_i : i \in ft_breaks <=> BreakDue(i)
        /\ ft_pc = "returned" =>
            /\ Len(Paragraphs) = Cardinality(ft_breaks)
                    + (IF Len(ft_snippets) > 0 /\ Len(ft_snippets) \notin ft_breaks
                       THEN 1 ELSE 0)
            /\ \A k \in 1..(Len(Paragraphs) - 1) : Len(Paragraphs[k]) > 100
            /\ \A b \in ft_breaks :
                    Len(Paragraphs[Cardinality({c \in ft_breaks : c <= b})])
                        = JoinedLength(BufferStart(b), b)

\* two segments of 50 characters, the second ending a sentence, made a
\* paragraph of 101 characters, and the third segment was flushed at the end
C14_Witness ==
    /\ ParagraphMode
    /\ ft_pc = "returned"
    /\ ft_breaks = {2}
    /\ Len(ft_snippets) = 3
    /\ Len(Paragraphs) = 2
    /\ Len(Paragraphs[1]) = 101
    /\ Len(Paragraphs[2]) <= 100

AllLookupsFailed ==
    /\ Len(ft_attempts) = 3
    /\ \A k \in 1..3 : ~ft_attempts[k].ok

MatchesVisible(outcome) == outcome \in {"visible", "click_fails"}

\* the loop over the selectors is over
SearchOver == pw_pc \notin {"start", "launch", "goto", "buttons"}

NoButtonRaised ==
    /\ pw_pc = "raised"
    /\ pw_error = fetch_transcript_playwright_error(StrNoButton)

\* C20 as stated: fetch_transcript_playwright tries the transcript-button
\* selectors in their fixed order and clicks exactly one element, that of the
\* first selector matching a visible element, after which no later selector is
\* tried; if no selector matches a visible element it clicks nothing and fails
\* with the transcript-button-not-found error.
C20_FirstVisibleClicked ==
    /\ Len(pw_clicks) <= 1
    /\ \A k \in 1..Len(pw_tried) :
          MatchesVisible(pw_tried[k]) => (pw_clicks = <<k>> /\ Len(pw_tried) = k)
    /\ pw_clicks # <<>> => MatchesVisible(pw_tried[pw_clicks[1]])
    /\ ( /\ Len(pw_tried) = ButtonSelectors
         /\ \A k \in 1..ButtonSelectors : ~MatchesVisible(pw_tried[k])
         /\ SearchOver ) => (NoButtonRaised /\ pw_clicks = <<>>)

\* C20, amended: the selectors are tried in their fixed order; a selector whose
\* lookup times out, whose element is not visible or whose click raises is
\* passed over and the next one is tried; the first selector whose visible
\* element is clicked without an error ends the search, so at most one click
\* succeeds and no later selector is tried after it; if no click succeeds the
\* call clicks nothing more and fails with the transcript-button-not-found
\* error.
C20_FirstSuccessfulClick ==
    /\ Len(pw_clicks) <= 1
    /\ \A k \in 1..Len(pw_tried) :
          pw_tried[k] = "visible" => (pw_clicks = <<k>> /\ Len(pw_tried) = k)
    /\ pw_clicks # <<>> =>
          /\ pw_clicks[1] \in 1..Len(pw_tried)
          /\ pw_tried[pw_clicks[1]] = "visible"
    /\ pw_clicks = <<>> /\ pw_pc = "buttons" => pw_selector = Len(pw_tried) + 1
    /\ ( /\ Len(pw_tried) = ButtonSelectors
         /\ \A k \in 1..ButtonSelectors : pw_tried[k] # "visible"
         /\ SearchOver ) => (NoButtonRaised /\ pw_clicks = <<>>)
    /\ NoButtonRaised =>
          /\ pw_clicks = <<>>
          /\ Len(pw_tried) = ButtonSelectors

\* the click on the first visible button raised, the second selector found a
\* hidden element, the third one was clicked and the transcript was returned
C20_Witness ==
    /\ pw_pc = "returned"
    /\ pw_tried = <<"click_fails", "hidden", "visible">>
    /\ pw_clicks = <<3>>

\* page.evaluate has returned
Extracted ==
    \/ pw_pc \in {"close", "format", "returned"}
    \/ pw_pc = "raised" /\ pw_error = fetch_transcript_playwright_error(StrNoSegments)

\* the families of the page, in order, for which P holds
FamiliesWith(P(_)) == {f \in 1..SegmentFamilies : P(pw_page[f])}

YieldsElements(elements) == Len(elements) > 0

YieldsSegments(elements) == Len(FamilySegments(elements)) > 0

\* the segments of the first family of fs, none when fs is empty
SegmentsOfFirst(fs) ==
    IF fs = {} THEN <<>>
    ELSE FamilySegments(pw_page[CHOOSE f \in fs : \A g \in fs : f <= g])

NoSegmentsRule ==
    /\ pw_pc = "returned" => Len(pw_segments) > 0
    /\ pw_pc = "raised" /\ Extracted => Len(pw_segments) = 0
    /\ pw_pc = "format" /\ Len(pw_segments) = 0 =>
          ENABLED PwNoSegments /\ ~ENABLED PwReturn

\* C21 as stated: the segments come from a single selector family, the first
\* in the ordered list that yields any elements; later families are not
\* consulted and families are never merged; an empty final list fails with the
\* no-segments error.
C21_FirstFamilyWithElements ==
    Extracted =>
        /\ pw_segments = SegmentsOfFirst(FamiliesWith(YieldsElements))
        /\ NoSegmentsRule

\* C21, amended: the segments come from a single selector family, the first in
\* the ordered list that yields at least one segment, that is, one element
\* holding a text element; families whose elements hold no text element are
\* passed over, later families are not consulted and families are never
\* merged; an empty final list fails with the no-segments error.
C21_FirstFamilyWithSegments ==
    Extracted =>
        /\ pw_segments = SegmentsOfFirst(FamiliesWith(YieldsSegments))
        /\ NoSegmentsRule

\* the first family matches an element without text, the second and the third
\* hold segments: the transcript returned holds those of the second only
C21_Witness ==
    /\ pw_pc = "returned"
    /\ YieldsElements(pw_page[1]) /\ ~YieldsSegments(pw_page[1])
    /\ YieldsSegments(pw_page[2]) /\ YieldsSegments(pw_page[3])
    /\ pw_page[2] # pw_page[3]
    /\ pw_segments = FamilySegments(pw_page[2])

\* the i-th and the j-th input are two different videos
DistinctVideos(i, j) ==
    /\ Truthy(VideoIdOf[urls[i]])
    /\ Truthy(VideoIdOf[urls[j]])
    /\ VideoIdOf[urls[i]] # VideoIdOf[urls[j]]

Reported(i) == urls[i] \in DOMAIN results /\ results[urls[i]] # None

\* C22: in one batch_fetch run no two distinct videos of the input list are
\* reported with the same output path, and a video is reported as skipped only
\* for a file holding its own transcript: never for the file the run has
\* written for another video (also when two titles give the same filename).
C22_OneFilePerVideo ==
    \A i, j \in 1..Len(urls) :
        DistinctVideos(i, j) =>
            /\ (Reported(i) /\ Reported(j)) => results[urls[i]] # results[urls[j]]
            /\ (j < i /\ vstate[j] = "Success" /\ vstate[i] = "Skip") =>
                    results[urls[i]] # results[urls[j]]

\* the two decimal digits of n < 100, and all the digits of a larger n
TwoDigits(n) ==
    IF n < 100 THEN <<DigitChar(n \div 10), DigitChar(n % 10)>> ELSE Decimal(n)

\* the integer part of the seconds format_timestamp was called with
WholeSeconds == fn_arg \div Seconds

Stamped == fn = "format_timestamp" /\ fn_ret # Pending

\* C23: for every non-negative number of seconds s, format_timestamp returns
\* zero-padded MM:SS when s is below 3600 and HH:MM:SS otherwise, with
\* HH = s div 3600, MM = (s mod 3600) div 60, SS = s mod 60 of the integer part
\* of s; format_timestamp(65) is "01:05", format_timestamp(3661) is "01:01:01".
C23_TimestampFormat ==
    Stamped =>
        LET s == WholeSeconds
            hh == TwoDigits(s \div 3600)
            mm == TwoDigits((s % 3600) \div 60)
            ss == TwoDigits(s % 60)
        IN  /\ fn_ret.value =
                 IF s < 3600 THEN mm \o <<":">> \o ss
                 ELSE hh \o <<":">> \o mm \o <<":">> \o ss
            /\ fn_arg = 65 * Seconds => fn_ret.value = <<"0", "1", ":", "0", "5">>
            /\ fn_arg = 3661 * Seconds =>
                 fn_ret.value = <<"0", "1", ":", "0", "1", ":", "0", "1">>

\* 3661.9 seconds were formatted as 01:01:01
C23_Witness ==
    /\ Stamped
    /\ fn_arg = 3661 * Seconds + 9
    /\ fn_ret.value = <<"0", "1", ":", "0", "1", ":", "0", "1">>

\* the pages main has dealt with in run r
Reached(r) == {p \in 1..MaxPages : x_log[r][p].outcome # "none"}

\* no file of the output directory was written in run r
NoFileWrittenIn(r) == \A p \in 1..MaxPages : x_files[p].by # r

\* C24: a page whose output markdown file already exists is neither sent to
\* the API nor overwritten, so a run after a run in which every page succeeded
\* makes no API call and changes no file, and a page that failed (no file
\* written) is attempted again on the next run.
C24_Rerunnable ==
    /\ \A r \in 1..Len(x_log) : \A p \in Reached(r) :
          x_log[r][p].found =>
              /\ x_log[r][p].outcome = "skipped"
              /\ ~x_log[r][p].called
              /\ x_files[p].exists /\ x_files[p].by # r
    /\ \A r \in 2..Len(x_log) :
          (\A p \in 1..MaxPages : x_log[r - 1][p].outcome \in {"saved", "skipped"}) =>
              /\ \A p \in 1..MaxPages : ~x_log[r][p].called
              /\ NoFileWrittenIn(r)
    /\ \A r \in 2..Len(x_log) : \A p \in Reached(r) :
          x_log[r - 1][p].outcome = "failed" =>
              /\ ~x_log[r][p].found
              /\ x_log[r][p].outcome \in {"saved", "failed", "failed_partial"}

\* the first run saved page 1 and failed on page 2 without writing a file;
\* the second run has skipped page 1 and saved page 2
C24_Witness ==
    /\ Len(x_log) = 2
    /\ x_log[1][1].outcome = "saved"
    /\ x_log[1][2].outcome = "failed"
    /\ x_log[2][1].outcome = "skipped"
    /\ x_log[2][2].outcome = "saved"
    /\ x_files[1].by = 1
    /\ x_files[2].by = 2

\* C25: generate_image raises FileNotFoundError to its caller when an input
\* image path does not exist, ValueError when the API response contains no
\* image data, and RuntimeError when the generation request itself fails, as
\* its docstring lists.
C25_DocumentedExceptions ==
    g_pc = "raised" =>
        /\ (g_i < Len(g_inputs) /\ g_inputs[g_i + 1] = "missing_path") =>
                g_raised = "FileNotFoundError"
        /\ g_response = "no_image" => g_raised = "ValueError"
        /\ g_cause = "APIError" => g_raised = "RuntimeError"

\* the messages of the primary fetcher that contain 'blocked' or 'blocking'
PrimaryRateLimitMessages ==
    {m \in {fetch_transcript_error(e) : e \in ApiErrors} : MentionsRateLimit(m)}

\* the latest save_transcript call failed in both fetchers, the primary one
\* with a rate-limit message
BothFailedRateLimited ==
    /\ CallFailed
    /\ call.fallback_invoked
    /\ call.api_error \in PrimaryRateLimitMessages

\* C26: if the primary fetcher fails with a message containing 'blocked' or
\* 'blocking' and the enabled fallback fails as well, the combined failure
\* save_transcript raises is still recognised as a rate-limit signal by
\* batch_fetch: a backoff wait follows the attempt, the video is not ended at
\* once (wherever in the primary message the word occurs).
C26_CombinedFailureIsRateLimit ==
    BothFailedRateLimited =>
        /\ call.error \in RateLimitMessages
        /\ Len(sleeps) > 0
        /\ sleeps[Len(sleeps)].kind = "backoff"
        /\ sleeps[Len(sleeps)].attempt = attempt

\* C27: every backoff wait in batch_fetch is followed by another attempt on the
\* same video: no wait is performed after the attempt that exhausts the retry
\* budget, so a video that fails rate-limited on all max_retries attempts
\* incurs exactly max_retries - 1 waits.
C27_NoWaitAfterLastAttempt ==
    /\ \A i \in 1..Len(Backoffs) : Backoffs[i].attempt < max_retries - 1
    /\ (pc = "loop" /\ idx > 0 /\ vstate[idx] = "Failed" /\ CallFailed
          /\ call.error \in RateLimitMessages) =>
            Len(Backoffs) = max_retries - 1

\* texts joined with single spaces, built from the left
RECURSIVE SpaceJoined(_)
SpaceJoined(texts) ==
    IF Len(texts) = 0 THEN <<>>
    ELSE IF Len(texts) = 1 THEN texts[1]
    ELSE SpaceJoined(SubSeq(texts, 1, Len(texts) - 1)) \o <<" ">> \o texts[Len(texts)]

\* the paragraphs of the markdown lines: what follows the header, each line
\* without the newline that ends it
ParagraphsOf(lines, header) ==
    [k \in 1..(Len(lines) - header) |->
        SubSeq(lines[header + k], 1, Len(lines[header + k]) - 1)]

\* the texts of the segments, as both modes take them
SnippetTextsOf(snippets) ==
    [k \in 1..Len(snippets) |-> Strip(snippets[k].text, Whitespace)]

SegmentTextsOf(segments) == [k \in 1..Len(segments) |-> segments[k].text]

\* C28: paragraph grouping loses and reorders nothing: in the API formatter
\* and in the browser-fallback formatter the emitted paragraphs joined with
\* single spaces are exactly the segment texts in their order joined with
\* single spaces, the text that flat mode emits.
C28_GroupingKeepsText ==
    /\ (ft_pc = "returned" /\ ParagraphMode) =>
          /\ SpaceJoined(ParagraphsOf(ft_lines, HeaderLines))
                = SpaceJoined(SnippetTextsOf(ft_snippets))
          /\ SpaceJoined(ParagraphsOf(ft_lines, HeaderLines)) = SimpleText(ft_snippets)
    /\ (pw_pc = "returned" /\ ~pw_timestamps) =>
          /\ SpaceJoined(ParagraphsOf(pw_lines, PlaywrightHeaderLines))
                = SpaceJoined(SegmentTextsOf(pw_segments))
          /\ \A k \in 1..(Len(pw_lines) - PlaywrightHeaderLines) :
                pw_lines[PlaywrightHeaderLines + k][Len(pw_lines[PlaywrightHeaderLines + k])] = "\n"

\* three segments were grouped into two paragraphs by the browser-fallback
\* formatter
C28_Witness ==
    /\ pw_pc = "returned"
    /\ Len(pw_segments) = 3
    /\ Len(pw_lines) = PlaywrightHeaderLines + 2

\* the markdown of fetch_transcript has reached its destination
Delivered(to_file) ==
    /\ m_pc = "exited"
    /\ m_exit = 0
    /\ m_output = to_file

\* the body of the markdown is the flat text: one line after the header, the
\* texts joined with single spaces, no newline after it
FlatBody ==
    /\ Len(ft_lines) = HeaderLines + 1
    /\ ft_lines[HeaderLines + 1] = SpaceJoined(SnippetTextsOf(ft_snippets))

\* C29: with --no-formatting the transcript body is produced in flat mode,
\* both when it is printed to stdout and when it is saved to a file with -o.
C29_NoFormattingIsFlat ==
    (m_no_formatting /\ (Delivered(TRUE) \/ Delivered(FALSE))) => FlatBody

\* what holds: on stdout the flag gives the flat body
C29_NoFormattingIsFlatOnStdout ==
    (m_no_formatting /\ Delivered(FALSE)) => FlatBody

\* with -o the flag changes nothing: the body is the one of paragraph mode
C29_SavedIgnoresFlag ==
    Delivered(TRUE) =>
        /\ ft_formatting
        /\ Len(ft_lines) > HeaderLines =>
              ft_lines[Len(ft_lines)][Len(ft_lines[Len(ft_lines)])] = "\n"

\* extract_video_id gives no video ID for url
NoVideoId(url) == ~Truthy(VideoIdOf[url])

\* the transcript provider was queried by fetch_transcript: api.list was called
ApiQueried ==
    \/ ft_pc \in {"find", "fetch", "format", "returned"}
    \/ ft_attempts # <<>>
    \/ ft_pc = "raised" /\ Contains(ft_ret, StrFailedToFetch)

\* a Playwright driver or browser was started by fetch_transcript_playwright
BrowserStarted ==
    \/ pw_driver
    \/ pw_browser # "none"
    \/ pw_pc \notin {"idle", "start", "raised"}
    \/ pw_pc = "raised" /\ Contains(pw_error, StrPlaywrightFailed)

\* save_transcript on a URL without video ID
SaveOfNoVideoId == m_pc \in {"api", "fallback", "exited"} /\ NoVideoId(m_url)

\* batch_fetch has taken up a URL without video ID
BatchOfNoVideoId ==
    /\ pc # "idle"
    /\ Len(urls) = 1
    /\ idx = 1
    /\ NoVideoId(urls[1])

\* C30: for an input without video ID no external resource is touched: in
\* save_transcript and in batch_fetch the transcript provider is not queried,
\* no browser session is launched, no output file is written, and the item
\* ends in failure.
C30_NoVideoIdTouchesNothing ==
    /\ SaveOfNoVideoId =>
          /\ ~ApiQueried
          /\ ~BrowserStarted
          /\ files = <<>>
          /\ m_pc = "exited" => (m_exit = 1 /\ ~call.ok)
    /\ BatchOfNoVideoId =>
          /\ fetches = 0
          /\ call = NoCall
          /\ ~ApiQueried
          /\ ~BrowserStarted
          /\ files = <<>>
          /\ output_file = <<>>
          /\ \/ pc = "raised"
             \/ vstate[1] = "Failed" /\ results[urls[1]] = None

\* save_transcript went through both fetchers for a URL without video ID and
\* raised
C30_Witness ==
    /\ SaveOfNoVideoId
    /\ m_pc = "exited"
    /\ call.fallback_invoked
    /\ pw_pc = "raised"
====
